---------------------------- MODULE Spec2Model ----------------------------
(***************************************************************************)
(* Mental-health companion applications: the chat functions that forward   *)
(* a conversation to the hosted model, the retrieval-augmented-generation  *)
(* context assembly, document chunking and ingestion, and the standalone   *)
(* application's per-session retrieval.                                    *)
(*                                                                         *)
(* Each subsystem has its own variables and its own specification; a       *)
(* specification pins the variables of the other subsystems.               *)
(***************************************************************************)
EXTENDS Integers, Sequences, FiniteSets, TLC

VARIABLES
    \* ---- chat functions (Personal-Voice-Assistant app.py, app_minimal.py, app_suzi.py)
    chatPc,        \* "ready" | "called" (function called directly) | "routed" (POST /chat)
    chatApp,       \* which application file serves the request
    chatMessage,   \* the user message
    chatHist,      \* the history argument / request field
    chatContext,   \* the context argument / request field
    chatModel,     \* whether the module-level `model` object was configured
    chatRes,       \* what the chat function did (direct call)
    chatResp,      \* what the /chat route answered
    \* ---- RAGSystem.get_context_for_ai (Personal-Voice-Assistant rag_system.py)
    ctxPc,         \* "ready" | "done"
    ctxRanked,     \* the collection's chunks for the query, nearest first
    ctxMax,        \* the max_context argument
    ctxOut,        \* the context returned
    \* ---- RAGSystem._split_text_into_chunks (Personal-Voice-Assistant rag_system.py)
    splitPc,       \* "ready" | "done"
    splitText,     \* the text argument, a sequence of characters
    splitSize,     \* self.chunk_size
    splitOverlap,  \* self.chunk_overlap
    splitOut,      \* the chunks returned
    \* ---- RAGEngine._chunk_text (standalone-sakhi-ai rag_engine.py)
    ctPc,          \* "ready" | "loop" | "done"
    ctInput,       \* the text argument, a sequence of characters
    ctSize,        \* chunk_size
    ctOverlap,     \* overlap
    ctText,        \* text after the whitespace clean-up
    ctStart,       \* start
    ctPrevStart,   \* start before the latest iteration (-1 before the first)
    ctChunks,      \* chunks so far / returned
    \* ---- standalone-sakhi-ai app.py, rag_engine.py, database.py
    userSessions,  \* the in-memory user_sessions map
    sakDb,         \* the sessions table: the last saved copy of each session
    sakCollection, \* the Chroma collection of RAGEngine: chunk records keyed by id
    sakNextDoc,    \* documents processed so far (each gets a fresh uuid id)
    sakOwner,      \* sakOwner[d]: the session whose upload created document d
    sakDup,        \* some add_document submitted an id the collection already held
    sakLast,       \* the retrieval of the latest /api/v1/chat request
    \* ---- ingestion into RAGSystem's collection (Personal-Voice-Assistant)
    pvaCollection, \* the chunk ids stored in the Chroma collection, in insertion order
    pvaIngests,    \* ingestion requests served so far
    pvaDup,        \* some process_pdf submitted an id the collection already held
    \* ---- chat-session files (Personal-Voice-Assistant app_suzi.py)
    cfFiles,       \* chat_sessions/session_<id>.json: the text of each file
    cfSaved,       \* the message list handed to the latest successful save of each id
    cfLast,        \* the latest operation and what it returned
    \* ---- DatabaseManager (standalone-sakhi-ai src/utils/database.py)
    dbTables,      \* the sessions table and the four tables of rows
    dbSaved,       \* the session handed to the latest successful save of each id
    dbLast,        \* the latest call and what it returned
    \* ---- MedicalContextManager.search_context (Personal-Voice-Assistant app_suzi.py)
    srPc,          \* "ready" | "done"
    srQuery,       \* the query, a sequence of characters
    srMaxChars,    \* max_chars
    srPdfLines,    \* self.pdf_content, line by line
    srReports,     \* self.user_reports
    srOut,         \* the context returned
    \* ---- task store (Personal-Voice-Assistant app_suzi.py)
    tkStore,       \* tasks/tasks.json: the list of tasks
    tkCreated,     \* add requests so far (the n-th has title n)
    tkLast,        \* the latest task request, its answer and the store before it
    tkThreads,     \* request threads between load_tasks and save_tasks
    tkAdded,       \* titles whose add request has completed
    tkRemoved,     \* titles a completed delete request removed
    \* ---- client profiles (Personal-Voice-Assistant app.py)
    clClients,     \* rows of the clients table, by id
    clMoods,       \* rows of the mood_entries table
    clFailed,      \* db_session waits for rollback() after a failed flush
    clLast,        \* the latest request, its answer and the clients before it
    \* ---- one session of the standalone app, chat in two steps
    ssSession,     \* user_sessions[session_id], or absent
    ssDb,          \* the SQLite database
    ssCount,       \* requests so far (the n-th adds entries numbered n)
    ssThreads,     \* per thread: the message of the chat request it is handling, or 0
    ssPersisted    \* every entry a save has written to the database

chatVars == <<chatPc, chatApp, chatMessage, chatHist, chatContext, chatModel, chatRes, chatResp>>

ctxVars == <<ctxPc, ctxRanked, ctxMax, ctxOut>>

splitVars == <<splitPc, splitText, splitSize, splitOverlap, splitOut>>

ctVars == <<ctPc, ctInput, ctSize, ctOverlap, ctText, ctStart, ctPrevStart, ctChunks>>

sakVars == <<userSessions, sakDb, sakCollection, sakNextDoc, sakOwner, sakDup, sakLast>>

pvaVars == <<pvaCollection, pvaIngests, pvaDup>>

cfVars == <<cfFiles, cfSaved, cfLast>>

dbVars == <<dbTables, dbSaved, dbLast>>

srVars == <<srPc, srQuery, srMaxChars, srPdfLines, srReports, srOut>>

tkVars == <<tkStore, tkCreated, tkLast, tkThreads, tkAdded, tkRemoved>>

clVars == <<clClients, clMoods, clFailed, clLast>>

ssVars == <<ssSession, ssDb, ssCount, ssThreads, ssPersisted>>

vars ==
    <<chatVars, ctxVars, splitVars, ctVars, sakVars, pvaVars, cfVars, dbVars, srVars,
      tkVars, clVars, ssVars>>

\* what the actions of one subsystem leave alone
OtherThanChat ==
    <<ctxVars, splitVars, ctVars, sakVars, pvaVars, cfVars, dbVars, srVars, tkVars,
      clVars, ssVars>>
OtherThanCtx ==
    <<chatVars, splitVars, ctVars, sakVars, pvaVars, cfVars, dbVars, srVars, tkVars,
      clVars, ssVars>>
OtherThanSplit ==
    <<chatVars, ctxVars, ctVars, sakVars, pvaVars, cfVars, dbVars, srVars, tkVars,
      clVars, ssVars>>
OtherThanCt ==
    <<chatVars, ctxVars, splitVars, sakVars, pvaVars, cfVars, dbVars, srVars, tkVars,
      clVars, ssVars>>
OtherThanSak ==
    <<chatVars, ctxVars, splitVars, ctVars, pvaVars, cfVars, dbVars, srVars, tkVars,
      clVars, ssVars>>
OtherThanPva ==
    <<chatVars, ctxVars, splitVars, ctVars, sakVars, cfVars, dbVars, srVars, tkVars,
      clVars, ssVars>>
OtherThanCf ==
    <<chatVars, ctxVars, splitVars, ctVars, sakVars, pvaVars, dbVars, srVars, tkVars,
      clVars, ssVars>>
OtherThanDb ==
    <<chatVars, ctxVars, splitVars, ctVars, sakVars, pvaVars, cfVars, srVars, tkVars,
      clVars, ssVars>>
OtherThanSr ==
    <<chatVars, ctxVars, splitVars, ctVars, sakVars, pvaVars, cfVars, dbVars, tkVars,
      clVars, ssVars>>
OtherThanTk ==
    <<chatVars, ctxVars, splitVars, ctVars, sakVars, pvaVars, cfVars, dbVars, srVars,
      clVars, ssVars>>
OtherThanCl ==
    <<chatVars, ctxVars, splitVars, ctVars, sakVars, pvaVars, cfVars, dbVars, srVars,
      tkVars, ssVars>>
OtherThanSs ==
    <<chatVars, ctxVars, splitVars, ctVars, sakVars, pvaVars, cfVars, dbVars, srVars,
      tkVars, clVars>>

-----------------------------------------------------------------------------
(* Bounds of the model *)

\* longest run of alternating user/assistant entries put in front of a history
MaxPad == 11
\* longest freely chosen tail of a history
MaxFree == 2
\* most short, near chunks ranked in front of the freely chosen search results
MaxCtxPad == 9
\* most freely chosen search results
MaxCtxFree == 3
\* longest arbitrary text given to _split_text_into_chunks
MaxSplitTextLen == 5
\* most words of a single-spaced text given to _split_text_into_chunks
MaxSplitWords == 6
\* largest chunk_size (in words) tried for _split_text_into_chunks
MaxSplitSize == 3
\* longest text given to _chunk_text
MaxChunkTextLen == 6
\* largest chunk_size (in characters) tried for _chunk_text
MaxChunkSize == 5
\* largest overlap tried for _chunk_text
MaxChunkOverlap == 2
\* most documents uploaded to the standalone application
MaxDocs == 2
\* most ingestion requests served by the Personal-Voice-Assistant RAG system
MaxIngests == 3
\* most messages a chat session holds beyond the numbered ones
MaxSessionFree == 3
\* most chat exchanges of a session handed to save_session
MaxDbExchanges == 2
\* most lines of reference text searched by search_context
MaxPdfLines == 3
\* most user reports searched by search_context
MaxReports == 2
\* most tasks ever added to the task store
MaxTaskAdds == 3
\* most tasks added by the interleaved request threads
MaxThreadAdds == 2
\* most rows of the clients table
MaxClients == 3
\* most rows of the mood_entries table
MaxMoods == 2
\* most requests that add to the session of the standalone app
MaxSessionRequests == 3

-----------------------------------------------------------------------------
(* Generic helpers *)

Min(a, b) == IF a < b THEN a ELSE b
Max(a, b) == IF a > b THEN a ELSE b

\* Python's seq[:-1]
Front(s) == IF Len(s) = 0 THEN s ELSE SubSeq(s, 1, Len(s) - 1)

\* Python's seq[-n:]
LastN(s, n) == IF Len(s) > n THEN SubSeq(s, Len(s) - n + 1, Len(s)) ELSE s

\* every sequence over S of length at most n
RECURSIVE SeqsUpTo(_, _)
SeqsUpTo(S, n) ==
    IF n = 0 THEN {<<>>}
    ELSE LET shorter == SeqsUpTo(S, n - 1)
         IN  shorter \cup {Append(s, x) : s \in {t \in shorter : Len(t) = n - 1}, x \in S}

-----------------------------------------------------------------------------
(* Chat functions *)

Apps == {"app", "app_minimal", "app_suzi"}

MentalHealth == "mental_health_companion"

\* A history entry as the client sends it: a dict with a role and its text under
\* the key 'content' (the key these apps write) or 'parts' (the hosted model's key).
Roles == {"user", "assistant", "system"}
Keys == {"content", "parts"}
Entry(r, k, t) == [role |-> r, key |-> k, text |-> t]

\* A history argument: None, or a list of entries ("absent": the field /
\* argument is left out and the default applies).
NoneHist == [kind |-> "none", items |-> <<>>]
ListHist(items) == [kind |-> "list", items |-> items]
AbsentHist == [kind |-> "absent", items |-> <<>>]

\* Python truthiness of a history value: None and [] are falsy.
Truthy(h) == h.kind = "list" /\ Len(h.items) > 0

\* number of history entries forwarded to the model
AppWindow == 10
MinimalWindow == 10
SuziWindow == 8

Window(app) ==
    CASE app = "app" -> AppWindow
      [] app = "app_minimal" -> MinimalWindow
      [] app = "app_suzi" -> SuziWindow

\* The hardcoded fallback strings of each function (four each).
FallbackResponses(fn) ==
    CASE fn = "send_message_with_context" -> {"ctx_fallback_1", "ctx_fallback_2", "ctx_fallback_3", "ctx_fallback_4"}
      [] fn = "send_message" -> {"msg_fallback_1", "msg_fallback_2", "msg_fallback_3", "msg_fallback_4"}
      [] fn = "send_message_ai" -> {"ai_fallback_1", "ai_fallback_2", "ai_fallback_3", "ai_fallback_4"}
      [] fn = "send_suzi_message" -> {"suzi_fallback_1", "suzi_fallback_2", "suzi_fallback_3", "suzi_fallback_4"}

\* The chat function each application's /chat route calls.
ChatFunction(app) ==
    CASE app = "app" -> "send_message_with_context"
      [] app = "app_minimal" -> "send_message_ai"
      [] app = "app_suzi" -> "send_suzi_message"

AllFallbacks == UNION {FallbackResponses(fn) : fn \in {"send_message_with_context", "send_message", "send_message_ai", "send_suzi_message"}}

\* The persona / system prompt each function puts first.
Persona(fn) ==
    CASE fn = "send_message_with_context" -> "arwen_enhanced_prompt"
      [] fn = "send_message" -> "arwen_system_prompt"
      [] fn = "send_message_ai" -> "arwen_system_prompt_minimal"
      [] fn = "send_suzi_message" -> "suzi_prompt"

\* item.get('content', item.get('parts', '')) in app.py; item.get('content', '')
\* in app_minimal.py and app_suzi.py
ItemText(app, item) ==
    IF item.key = "content" THEN item.text
    ELSE IF app = "app" THEN item.text
    ELSE ""

\* the window taken one entry too wide
RecentHistoryWide(app, items) == LastN(items, Window(app) + 1)

\* history[-N:] if len(history) > N else history
RecentHistory(app, items) == LastN(items, Window(app))

\* the loop over recent_history: 'user' kept, 'assistant' becomes 'model',
\* any other role is skipped
RECURSIVE EnhanceItems(_, _)
EnhanceItems(app, items) ==
    IF items = <<>> THEN <<>>
    ELSE LET item == Head(items)
             rest == EnhanceItems(app, Tail(items))
         IN  IF item.role = "user"
                 THEN <<Entry("user", "parts", ItemText(app, item))>> \o rest
             ELSE IF item.role = "assistant"
                 THEN <<Entry("model", "parts", ItemText(app, item))>> \o rest
             ELSE rest

\* enhanced_history: the prompt, the recent history, the current message
EnhancedHistory(app, fn, message, h) ==
    <<Entry("user", "parts", Persona(fn))>>
        \o (IF Truthy(h) THEN EnhanceItems(app, RecentHistory(app, h.items)) ELSE <<>>)
        \o <<Entry("user", "parts", message)>>

\* What a chat function did: it raised or returned (text, history); forwarded
\* is the conversation handed to the hosted model, the message sent last
\* (empty when the model was never called).
FnResult(raised, text, history, forwarded, modelFailed) ==
    [raised |-> raised, text |-> text, history |-> history,
     forwarded |-> forwarded, modelFailed |-> modelFailed]

\* The outcome of the hosted model call: it answers, or it raises; `pick` is the
\* fallback string random.choice draws when it raises.
ModelOutcomes(fn) ==
    {[ok |-> TRUE, text |-> "model_reply"]}
        \cup {[ok |-> FALSE, text |-> f] : f \in FallbackResponses(fn)}

\* history.append(user); history.append(assistant) in the except branch:
\* history is still None when None was passed, and None has no append.
FallbackReturn(message, h, forwarded, pick) ==
    IF h.kind = "none"
        THEN FnResult(TRUE, "AttributeError", <<>>, forwarded, TRUE)
        ELSE FnResult(FALSE, pick,
                      h.items \o <<Entry("user", "content", message),
                                   Entry("assistant", "content", pick)>>,
                      forwarded, TRUE)

\* the try block after the model answered: None becomes [] before the appends
SuccessReturn(message, h, forwarded, reply) ==
    FnResult(FALSE, reply,
             h.items \o <<Entry("user", "content", message),
                          Entry("assistant", "content", reply)>>,
             forwarded, FALSE)

\* The mental-health branch shared by the four functions: build enhanced_history,
\* start_chat(history=enhanced_history[:-1]), send_message(message).
MentalHealthChat(app, fn, message, h, outcome) ==
    LET enhanced == EnhancedHistory(app, fn, message, h)
        forwarded == Front(enhanced) \o <<Entry("user", "parts", message)>>
    IN  IF outcome.ok
            THEN SuccessReturn(message, h, forwarded, outcome.text)
            ELSE FallbackReturn(message, h, forwarded, outcome.text)

\* The general branch ("Original behavior for general chat"): no try/except,
\* the raw history with the message appended goes to start_chat and the message
\* is sent again.
GeneralChat(message, h, outcome) ==
    LET history == h.items \o <<Entry("user", "parts", message)>>
        forwarded == history \o <<Entry("user", "parts", message)>>
    IN  IF outcome.ok
            THEN FnResult(FALSE, outcome.text,
                          history \o <<Entry("model", "parts", outcome.text)>>,
                          forwarded, FALSE)
            ELSE FnResult(TRUE, "ModelError", <<>>, forwarded, TRUE)

\* app.py send_message(message, history, context='general')
SendMessage(message, h, context, outcome) ==
    IF context = MentalHealth
        THEN MentalHealthChat("app", "send_message", message, h, outcome)
        ELSE GeneralChat(message, h, outcome)

\* app.py send_message_with_context(message, history, context, rag_context, client_context)
SendMessageWithContext(message, h, context, outcome) ==
    IF context = MentalHealth
        THEN MentalHealthChat("app", "send_message_with_context", message, h, outcome)
        ELSE SendMessage(message, h, context, outcome)

\* `if not model: return <text>, []` of app_minimal.py and app_suzi.py
NoModelReturn(text) == FnResult(FALSE, text, <<>>, <<>>, FALSE)

\* app_minimal.py send_message_ai(message, history=None, context='mental_health_companion')
SendMessageAi(message, h, context, modelOk, outcome) ==
    IF ~modelOk THEN NoModelReturn("AI service not available")
    ELSE IF context = MentalHealth
        THEN MentalHealthChat("app_minimal", "send_message_ai", message, h, outcome)
        ELSE GeneralChat(message, h, outcome)

\* app_suzi.py send_suzi_message(message, history=None, language='en')
SendSuziMessage(message, h, modelOk, outcome) ==
    IF ~modelOk THEN NoModelReturn("trouble connecting")
    ELSE MentalHealthChat("app_suzi", "send_suzi_message", message, h, outcome)

\* The chat function of an application, called with a history that is None or a list.
CallChat(app, message, h, context, modelOk, outcome) ==
    CASE app = "app" -> SendMessageWithContext(message, h, context, outcome)
      [] app = "app_minimal" -> SendMessageAi(message, h, context, modelOk, outcome)
      [] app = "app_suzi" -> SendSuziMessage(message, h, modelOk, outcome)

\* A /chat answer: the HTTP status, the message and the history of the body.
Response(status, message, history) == [status |-> status, message |-> message, history |-> history]

\* app.py POST /chat: request.json.get('history'), None replaced by [] before use
ChatRouteApp(message, h, context, outcome) ==
    IF message = "" THEN Response(400, "Message is required", <<>>)
    ELSE LET history == IF h.kind = "list" THEN h ELSE ListHist(<<>>)
             r == SendMessageWithContext(message, history, context, outcome)
         IN  IF r.raised THEN Response(500, "Internal server error", <<>>)
             ELSE Response(200, r.text, r.history)

\* app_minimal.py POST /chat: request.json.get('history', []), then len(history)
\* is printed before the call
ChatRouteMinimal(message, h, context, modelOk, outcome) ==
    IF message = "" THEN Response(400, "Message is required", <<>>)
    ELSE LET history == IF h.kind = "absent" THEN ListHist(<<>>) ELSE h
         IN  IF history.kind = "none" THEN Response(500, "Internal server error", <<>>)
             ELSE LET r == SendMessageAi(message, history, context, modelOk, outcome)
                  IN  IF r.raised THEN Response(500, "Internal server error", <<>>)
                      ELSE Response(200, r.text, r.history)

-----------------------------------------------------------------------------
(* Inputs of the chat functions *)

\* p alternating user/assistant entries, as earlier exchanges leave them
RECURSIVE Pad(_)
Pad(p) ==
    IF p = 0 THEN <<>>
    ELSE Pad(p - 1) \o <<Entry(IF p % 2 = 1 THEN "user" ELSE "assistant", "content",
                               IF p % 2 = 1 THEN "earlier_message" ELSE "earlier_reply")>>

FreeEntries == {Entry(r, k, "text_" \o r) : r \in Roles, k \in Keys}

HistoryLists == {Pad(p) \o tail : p \in 0..MaxPad, tail \in SeqsUpTo(FreeEntries, MaxFree)}

HistoryInputs == {NoneHist, AbsentHist} \cup {ListHist(items) : items \in HistoryLists}

NoResult == FnResult(FALSE, "", <<>>, <<>>, FALSE)
NoResponse == Response(0, "", <<>>)

ChatInit ==
    /\ chatPc = "ready"
    /\ chatApp \in Apps
    /\ chatMessage \in {"", "hello"}
    /\ chatHist \in HistoryInputs
    /\ chatContext \in {MentalHealth, "general"}
    /\ chatModel \in BOOLEAN
    /\ chatRes = NoResult
    /\ chatResp = NoResponse

\* state of the chat subsystem while another specification runs
ChatIdle ==
    /\ chatPc = "idle"
    /\ chatApp = "app"
    /\ chatMessage = ""
    /\ chatHist = AbsentHist
    /\ chatContext = MentalHealth
    /\ chatModel = TRUE
    /\ chatRes = NoResult
    /\ chatResp = NoResponse

\* A direct call of the application's chat function.  An omitted history takes
\* the default None where the signature has one (app.py's has none); app.py
\* configures its model at import, so the model object always exists there.
CallChatFunction ==
    /\ chatPc = "ready"
    /\ chatApp = "app" => (chatHist.kind # "absent" /\ chatModel)
    /\ \E outcome \in ModelOutcomes(ChatFunction(chatApp)) :
           chatRes' = CallChat(chatApp, chatMessage,
                               IF chatHist.kind = "absent" THEN NoneHist ELSE chatHist,
                               chatContext, chatModel, outcome)
    /\ chatPc' = "called"
    /\ UNCHANGED <<chatApp, chatMessage, chatHist, chatContext, chatModel, chatResp>>
    /\ UNCHANGED OtherThanChat

\* POST /chat of app.py
ChatRequestApp ==
    /\ chatPc = "ready"
    /\ chatApp = "app"
    /\ chatModel
    /\ \E outcome \in ModelOutcomes(ChatFunction(chatApp)) :
           /\ chatRes' = (IF chatMessage = "" THEN NoResult
                          ELSE SendMessageWithContext(chatMessage,
                                   IF chatHist.kind = "list" THEN chatHist ELSE ListHist(<<>>),
                                   chatContext, outcome))
           /\ chatResp' = ChatRouteApp(chatMessage, chatHist, chatContext, outcome)
    /\ chatPc' = "routed"
    /\ UNCHANGED <<chatApp, chatMessage, chatHist, chatContext, chatModel>>
    /\ UNCHANGED OtherThanChat

\* POST /chat of app_minimal.py
ChatRequestMinimal ==
    /\ chatPc = "ready"
    /\ chatApp = "app_minimal"
    /\ \E outcome \in ModelOutcomes(ChatFunction(chatApp)) :
           /\ chatRes' = (IF chatMessage = "" \/ chatHist.kind = "none" THEN NoResult
                          ELSE SendMessageAi(chatMessage,
                                   IF chatHist.kind = "absent" THEN ListHist(<<>>) ELSE chatHist,
                                   chatContext, chatModel, outcome))
           /\ chatResp' = ChatRouteMinimal(chatMessage, chatHist, chatContext, chatModel, outcome)
    /\ chatPc' = "routed"
    /\ UNCHANGED <<chatApp, chatMessage, chatHist, chatContext, chatModel>>
    /\ UNCHANGED OtherThanChat

NextChat == CallChatFunction \/ ChatRequestApp \/ ChatRequestMinimal

-----------------------------------------------------------------------------
(* RAGSystem.search_knowledge and RAGSystem.get_context_for_ai *)

\* k of the search get_context_for_ai runs
SearchK == 10
\* similarity a chunk must exceed, in thousandths (0.3)
SimilarityThreshold == 300
\* default of max_context
MaxContextDefault == 2000
\* len("Based on the following mental health resources:\n\n")
HeaderLen == 49
\* len("[From ") + len(" - Relevance: ") + len("0.00") + len("]\n")
LabelLen == 26
\* len("\n\n"), the separator of the join and the trailer of the result
SeparatorLen == 2

\* A chunk of the collection as the query sees it: the length of its content,
\* the length of its metadata filename, its distance in thousandths.
Chunk(len, source, distance) == [len |-> len, source |-> source, distance |-> distance]

\* search_knowledge: the k nearest chunks, each with similarity = 1 - distance and
\* rank = i + 1; an exception inside yields [].
SearchKnowledge(ranked, k, fails) ==
    IF fails THEN <<>>
    ELSE [i \in 1..Min(k, Len(ranked)) |->
             [len |-> ranked[i].len, source |-> ranked[i].source,
              similarity |-> 1000 - ranked[i].distance, rank |-> i]]

\* the loop stopped at the first chunk that does not fit
RECURSIVE SelectChunksStopAtOverflow(_, _, _, _, _)
SelectChunksStopAtOverflow(results, i, total, max_context, acc) ==
    IF i > Len(results) THEN acc
    ELSE LET result == results[i]
         IN  IF result.similarity > SimilarityThreshold /\ total + result.len < max_context
                 THEN SelectChunksStopAtOverflow(results, i + 1, total + result.len, max_context,
                                                 Append(acc, result))
             ELSE IF result.similarity > SimilarityThreshold THEN acc
             ELSE SelectChunksStopAtOverflow(results, i + 1, total, max_context, acc)

\* the loop over search_results: a chunk is appended when its similarity is
\* above 0.3 and total_length + len(content) < max_context
RECURSIVE SelectChunks(_, _, _, _, _)
SelectChunks(results, i, total, max_context, acc) ==
    IF i > Len(results) THEN acc
    ELSE LET result == results[i]
         IN  IF result.similarity > SimilarityThreshold /\ total + result.len < max_context
                 THEN SelectChunks(results, i + 1, total + result.len, max_context,
                                   Append(acc, result))
                 ELSE SelectChunks(results, i + 1, total, max_context, acc)

RECURSIVE SumLen(_)
SumLen(chunks) == IF chunks = <<>> THEN 0 ELSE Head(chunks).len + SumLen(Tail(chunks))

RECURSIVE SumSource(_)
SumSource(chunks) == IF chunks = <<>> THEN 0 ELSE Head(chunks).source + SumSource(Tail(chunks))

\* length of the formatted string: the header, one labelled block per chunk
\* joined by blank lines, the trailing blank line
FormattedLen(chunks) ==
    IF chunks = <<>> THEN 0
    ELSE HeaderLen
            + Len(chunks) * LabelLen + SumSource(chunks) + SumLen(chunks)
            + (Len(chunks) - 1) * SeparatorLen
            + SeparatorLen

\* get_context_for_ai(query, client_id, max_context): the ranks of the chunks
\* put into the context and the length of the returned string ("" has length 0)
GetContextForAi(ranked, max_context, searchFails) ==
    LET search_results == SearchKnowledge(ranked, SearchK, searchFails)
        context_chunks == IF search_results = <<>> THEN <<>>
                          ELSE SelectChunks(search_results, 1, 0, max_context, <<>>)
    IN  [searched |-> Len(search_results),
         included |-> [j \in 1..Len(context_chunks) |-> context_chunks[j].rank],
         length |-> FormattedLen(context_chunks)]

\* search results the collection can rank for a query: up to MaxCtxPad short
\* near chunks, then freely chosen chunks in nondecreasing distance
ChunkLens == {500, 1400, 1999}
ChunkDistances == {200, 700, 800}

RECURSIVE Fill(_)
Fill(p) == IF p = 0 THEN <<>> ELSE Fill(p - 1) \o <<Chunk(100, 8, 100)>>

Sorted(chunks) == \A i \in 1..(Len(chunks) - 1) : chunks[i].distance <= chunks[i + 1].distance

FreeChunks == {Chunk(l, 8, d) : l \in ChunkLens, d \in ChunkDistances}

RankedLists ==
    {Fill(p) \o free : p \in 0..MaxCtxPad,
                       free \in {f \in SeqsUpTo(FreeChunks, MaxCtxFree) : Sorted(f)}}

NoContext == [searched |-> 0, included |-> <<>>, length |-> 0]

CtxInit ==
    /\ ctxPc = "ready"
    /\ ctxRanked \in RankedLists
    /\ ctxMax \in {1000, MaxContextDefault}
    /\ ctxOut = NoContext

CtxIdle ==
    /\ ctxPc = "idle"
    /\ ctxRanked = <<>>
    /\ ctxMax = MaxContextDefault
    /\ ctxOut = NoContext

\* a call of get_context_for_ai; the search inside may fail
CallGetContextForAi ==
    /\ ctxPc = "ready"
    /\ \E searchFails \in BOOLEAN :
           ctxOut' = GetContextForAi(ctxRanked, ctxMax, searchFails)
    /\ ctxPc' = "done"
    /\ UNCHANGED <<ctxRanked, ctxMax>>
    /\ UNCHANGED OtherThanCtx

NextCtx == CallGetContextForAi

-----------------------------------------------------------------------------
(* Texts: sequences of characters *)

Whitespace == {" ", "\n", "\t"}

\* str.strip(): leading and trailing whitespace removed
RECURSIVE LStrip(_)
LStrip(t) == IF t # <<>> /\ Head(t) \in Whitespace THEN LStrip(Tail(t)) ELSE t

RECURSIVE RStrip(_)
RStrip(t) == IF t # <<>> /\ t[Len(t)] \in Whitespace THEN RStrip(Front(t)) ELSE t

Strip(t) == RStrip(LStrip(t))

\* str.split(): the maximal runs of non-whitespace characters, in order
RECURSIVE SplitFrom(_, _, _)
SplitFrom(t, word, acc) ==
    IF t = <<>> THEN (IF word = <<>> THEN acc ELSE Append(acc, word))
    ELSE IF Head(t) \in Whitespace
        THEN SplitFrom(Tail(t), <<>>, IF word = <<>> THEN acc ELSE Append(acc, word))
        ELSE SplitFrom(Tail(t), Append(word, Head(t)), acc)

Split(t) == SplitFrom(t, <<>>, <<>>)

\* ' '.join(words)
RECURSIVE Join(_)
Join(words) ==
    IF words = <<>> THEN <<>>
    ELSE IF Len(words) = 1 THEN Head(words)
    ELSE Head(words) \o <<" ">> \o Join(Tail(words))

\* seq[i:j] for 0 <= i, with Python's 0-based, end-exclusive bounds
Slice(t, i, j) == SubSeq(t, i + 1, Min(j, Len(t)))

\* re.sub(r'\s+', ' ', text): every run of whitespace becomes one space
RECURSIVE CollapseWhitespace(_, _)
CollapseWhitespace(t, inRun) ==
    IF t = <<>> THEN <<>>
    ELSE IF Head(t) \in Whitespace
        THEN (IF inRun THEN <<>> ELSE <<" ">>) \o CollapseWhitespace(Tail(t), TRUE)
        ELSE <<Head(t)>> \o CollapseWhitespace(Tail(t), FALSE)

\* str.rfind(ch, start, end): the highest 0-based index in [start, end) holding
\* ch, or -1
RFind(t, ch, start, end) ==
    LET hits == {i \in start..(Min(end, Len(t)) - 1) : t[i + 1] = ch}
    IN  IF hits = {} THEN -1 ELSE CHOOSE i \in hits : \A k \in hits : k <= i

-----------------------------------------------------------------------------
(* RAGSystem._split_text_into_chunks *)

\* the loop with step chunk_size, which leaves no overlap
RECURSIVE SplitLoopNoOverlap(_, _, _, _, _)
SplitLoopNoOverlap(words, i, chunk_size, chunk_overlap, chunks) ==
    IF i >= Len(words) THEN chunks
    ELSE LET chunk_words == Slice(words, i, i + chunk_size)
         IN  SplitLoopNoOverlap(words, i + chunk_size, chunk_size, chunk_overlap,
                                IF chunk_words # <<>> THEN Append(chunks, Join(chunk_words))
                                ELSE chunks)

\* for i in range(0, len(words), chunk_size - chunk_overlap):
\*     chunk_words = words[i:i + chunk_size]; appended joined when non-empty
RECURSIVE SplitLoop(_, _, _, _, _)
SplitLoop(words, i, chunk_size, chunk_overlap, chunks) ==
    IF i >= Len(words) THEN chunks
    ELSE LET chunk_words == Slice(words, i, i + chunk_size)
         IN  SplitLoop(words, i + (chunk_size - chunk_overlap), chunk_size, chunk_overlap,
                       IF chunk_words # <<>> THEN Append(chunks, Join(chunk_words))
                       ELSE chunks)

\* _split_text_into_chunks(text) with the instance's chunk_size and chunk_overlap
SplitTextIntoChunks(text, chunk_size, chunk_overlap) ==
    IF text = <<>> THEN <<>>
    ELSE SplitLoop(Split(text), 0, chunk_size, chunk_overlap, <<>>)

SplitAlphabet == {"a", "b", " "}

\* every short text, and longer texts of one-letter words single-spaced
SplitTexts ==
    SeqsUpTo(SplitAlphabet, MaxSplitTextLen)
        \cup {Join([i \in 1..Len(ws) |-> <<ws[i]>>]) : ws \in SeqsUpTo({"a", "b"}, MaxSplitWords)}

SplitInit ==
    /\ splitPc = "ready"
    /\ splitText \in SplitTexts
    /\ splitSize \in 1..MaxSplitSize
    /\ splitOverlap \in 0..(splitSize - 1)
    /\ splitOut = <<>>

SplitIdle ==
    /\ splitPc = "idle"
    /\ splitText = <<>>
    /\ splitSize = 1
    /\ splitOverlap = 0
    /\ splitOut = <<>>

CallSplitTextIntoChunks ==
    /\ splitPc = "ready"
    /\ splitOut' = SplitTextIntoChunks(splitText, splitSize, splitOverlap)
    /\ splitPc' = "done"
    /\ UNCHANGED <<splitText, splitSize, splitOverlap>>
    /\ UNCHANGED OtherThanSplit

NextSplit == CallSplitTextIntoChunks

-----------------------------------------------------------------------------
(* RAGEngine._chunk_text, one action per pass of its while loop *)

\* text = re.sub(r'\s+', ' ', text).strip()
CleanText(text) == Strip(CollapseWhitespace(text, FALSE))

\* the end of the chunk that starts at start: start + chunk_size, moved back to
\* just after the last sentence end when that lies beyond the middle of the
\* chunk, otherwise to the last space after start
ChunkEnd(text, start, chunk_size) ==
    LET end == start + chunk_size
    IN  IF end < Len(text)
            THEN LET last_period == RFind(text, ".", start, end)
                     last_exclamation == RFind(text, "!", start, end)
                     last_question == RFind(text, "?", start, end)
                     last_sentence == Max(last_period, Max(last_exclamation, last_question))
                     last_space == RFind(text, " ", start, end)
                 IN  IF last_sentence > start + (chunk_size \div 2) THEN last_sentence + 1
                     ELSE IF last_space > start THEN last_space
                     ELSE end
            ELSE end

\* start = max(start + 1, end - overlap)
NextStart(start, end, overlap) == Max(start + 1, end - overlap)

ChunkAlphabet == {"a", ".", " "}

CtInit ==
    /\ ctPc = "ready"
    /\ ctInput \in SeqsUpTo(ChunkAlphabet, MaxChunkTextLen)
    /\ ctSize \in 1..MaxChunkSize
    /\ ctOverlap \in 0..MaxChunkOverlap
    /\ ctText = <<>>
    /\ ctStart = 0
    /\ ctPrevStart = -1
    /\ ctChunks = <<>>

CtIdle ==
    /\ ctPc = "idle"
    /\ ctInput = <<>>
    /\ ctSize = 1
    /\ ctOverlap = 0
    /\ ctText = <<>>
    /\ ctStart = 0
    /\ ctPrevStart = -1
    /\ ctChunks = <<>>

\* entry: the clean-up, and the early return of a text that fits one chunk
ChunkTextEnter ==
    /\ ctPc = "ready"
    /\ ctText' = CleanText(ctInput)
    /\ IF Len(ctText') <= ctSize
           THEN ctChunks' = <<ctText'>> /\ ctPc' = "done"
           ELSE ctChunks' = <<>> /\ ctPc' = "loop"
    /\ UNCHANGED <<ctInput, ctSize, ctOverlap, ctStart, ctPrevStart>>
    /\ UNCHANGED OtherThanCt

\* one pass of `while start < len(text)`
ChunkTextPass ==
    /\ ctPc = "loop"
    /\ ctStart < Len(ctText)
    /\ LET end == ChunkEnd(ctText, ctStart, ctSize)
           chunk == Strip(Slice(ctText, ctStart, end))
       IN  /\ ctChunks' = (IF chunk # <<>> THEN Append(ctChunks, chunk) ELSE ctChunks)
           /\ ctStart' = NextStart(ctStart, end, ctOverlap)
    /\ ctPrevStart' = ctStart
    /\ UNCHANGED <<ctPc, ctInput, ctSize, ctOverlap, ctText>>
    /\ UNCHANGED OtherThanCt

\* the loop condition fails: return chunks
ChunkTextReturn ==
    /\ ctPc = "loop"
    /\ ~(ctStart < Len(ctText))
    /\ ctPc' = "done"
    /\ UNCHANGED <<ctInput, ctSize, ctOverlap, ctText, ctStart, ctPrevStart, ctChunks>>
    /\ UNCHANGED OtherThanCt

NextCt == ChunkTextEnter \/ ChunkTextPass \/ ChunkTextReturn

-----------------------------------------------------------------------------
(* Chroma collections *)

\* collection.add: records are keyed by id; a record whose id the collection
\* already holds is not stored again
ChromaAdd(collection, records) ==
    collection \cup {r \in records : \A c \in collection : c.id # r.id}

\* The distance between a query and a chunk, in thousandths: the embedding model
\* is a fixed function of the two texts (texts are numbered topics here).
Distance(query, content) ==
    LET d == IF query >= content THEN query - content ELSE content - query
    IN  CASE d = 0 -> 100
          [] d = 1 -> 500
          [] OTHER -> 700

\* c1 is returned before c2: nearer first, ties in insertion order
Nearer(query, c1, c2) ==
    \/ Distance(query, c1.content) < Distance(query, c2.content)
    \/ /\ Distance(query, c1.content) = Distance(query, c2.content)
       /\ \/ c1.id[1] < c2.id[1]
          \/ c1.id[1] = c2.id[1] /\ c1.id[2] < c2.id[2]

RECURSIVE NearestFirst(_, _)
NearestFirst(query, chunks) ==
    IF chunks = {} THEN <<>>
    ELSE LET c == CHOOSE c \in chunks : \A o \in chunks \ {c} : Nearer(query, c, o)
         IN  <<c>> \o NearestFirst(query, chunks \ {c})

\* collection.query(query_embeddings, n_results, where={"user_id": user_id}):
\* the n nearest chunks among those whose metadata matches
ChromaQuery(collection, query, n_results, user_id) ==
    LET matching == {c \in collection : c.user_id = user_id}
        ranked == NearestFirst(query, matching)
    IN  [i \in 1..Min(n_results, Len(ranked)) |->
            [id |-> ranked[i].id, document |-> ranked[i].content,
             metadata |-> [document_id |-> ranked[i].document_id,
                           chunk_index |-> ranked[i].chunk_index,
                           user_id |-> ranked[i].user_id],
             distance |-> Distance(query, ranked[i].content)]]

\* the same query without the where filter
ChromaQueryUnfiltered(collection, query, n_results, user_id) ==
    LET ranked == NearestFirst(query, collection)
    IN  [i \in 1..Min(n_results, Len(ranked)) |->
            [id |-> ranked[i].id, document |-> ranked[i].content,
             metadata |-> [document_id |-> ranked[i].document_id,
                           chunk_index |-> ranked[i].chunk_index,
                           user_id |-> ranked[i].user_id],
             distance |-> Distance(query, ranked[i].content)]]

-----------------------------------------------------------------------------
(* RAGEngine (standalone-sakhi-ai) *)

\* top_k the chat route passes
TopK == 5
\* default threshold of retrieve_context, in thousandths (0.5)
RetrieveThreshold == 500

\* add_document: one record per chunk, id "<document_id>_chunk_<i>", metadata
\* with document_id, chunk_index and user_id
DocumentRecords(document_id, chunks, user_id) ==
    {[id |-> <<document_id, i - 1>>, content |-> chunks[i], user_id |-> user_id,
      document_id |-> document_id, chunk_index |-> i - 1] : i \in 1..Len(chunks)}

\* a result is kept only when its similarity is strictly above the threshold
RECURSIVE KeepSimilarStrict(_, _)
KeepSimilarStrict(results, threshold) ==
    IF results = <<>> THEN <<>>
    ELSE LET r == Head(results)
             similarity == 1000 - r.distance
             rest == KeepSimilarStrict(Tail(results), threshold)
         IN  IF similarity > threshold
                 THEN <<[id |-> r.id, content |-> r.document, metadata |-> r.metadata,
                         similarity |-> similarity,
                         document_id |-> r.metadata.document_id,
                         chunk_index |-> r.metadata.chunk_index]>> \o rest
                 ELSE rest

\* the loop over results['ids'][0]: similarity = 1 - distance, kept when
\* similarity >= threshold
RECURSIVE KeepSimilar(_, _)
KeepSimilar(results, threshold) ==
    IF results = <<>> THEN <<>>
    ELSE LET r == Head(results)
             similarity == 1000 - r.distance
             rest == KeepSimilar(Tail(results), threshold)
         IN  IF similarity >= threshold
                 THEN <<[id |-> r.id, content |-> r.document, metadata |-> r.metadata,
                         similarity |-> similarity,
                         document_id |-> r.metadata.document_id,
                         chunk_index |-> r.metadata.chunk_index]>> \o rest
                 ELSE rest

\* retrieve_context without the where clause of its query
RetrieveContextAnyUser(collection, query, user_id, top_k, threshold, fails) ==
    IF fails THEN [raw |-> <<>>, context |-> <<>>]
    ELSE LET results == ChromaQueryUnfiltered(collection, query, top_k, user_id)
         IN  [raw |-> results, context |-> KeepSimilar(results, threshold)]

\* retrieve_context(query, user_id, top_k, threshold): what the collection
\* returned and the context built from it; any exception yields []
RetrieveContext(collection, query, user_id, top_k, threshold, fails) ==
    IF fails THEN [raw |-> <<>>, context |-> <<>>]
    ELSE LET results == ChromaQuery(collection, query, top_k, user_id)
         IN  [raw |-> results, context |-> KeepSimilar(results, threshold)]

-----------------------------------------------------------------------------
(* The standalone application: sessions, uploads, chat *)

SessionIds == {"s1", "s2"}

Queries == {0, 1}

\* The chunk contents _chunk_text makes of an uploaded document.
DocKinds == {<<1, 2>>, <<0, 1, 2>>}

NoSession == [present |-> FALSE, documents |-> <<>>]

\* the dict get_or_create_session stores for a new id; of its fields the
\* retrieval reads 'id' (the key here) and 'documents'
NewSession == [present |-> TRUE, documents |-> <<>>]

\* get_or_create_session: the map after the call
GetOrCreateSession(sessions, sid) ==
    IF sessions[sid].present THEN sessions ELSE [sessions EXCEPT ![sid] = NewSession]

NoRetrieval == [kind |-> "none", session |-> "s1", query |-> 0, called |-> FALSE,
                failed |-> FALSE, raw |-> <<>>, context |-> <<>>]

SakInit ==
    /\ userSessions = [sid \in SessionIds |-> NoSession]
    /\ sakDb = [sid \in SessionIds |-> NoSession]
    /\ sakCollection = {}
    /\ sakNextDoc = 0
    /\ sakOwner = <<>>
    /\ sakDup = FALSE
    /\ sakLast = NoRetrieval

SakIdle == SakInit

\* POST /api/v1/documents/upload: the document is processed, added to the RAG
\* engine (add_document reports an exception as success False), appended to the
\* session and the session saved.  The whole handler is one step.
UploadDocument ==
    /\ sakNextDoc < MaxDocs
    /\ \E sid \in SessionIds, chunks \in DocKinds, addFails \in BOOLEAN :
           LET created == GetOrCreateSession(userSessions, sid)
               document_id == sakNextDoc + 1
               records == DocumentRecords(document_id, chunks, sid)
               session == [created[sid] EXCEPT
                              !.documents = Append(@, [id |-> document_id,
                                                       chunks |-> IF addFails THEN 0 ELSE Len(chunks)])]
           IN  /\ sakNextDoc' = document_id
               /\ sakOwner' = Append(sakOwner, sid)
               /\ sakCollection' = (IF addFails THEN sakCollection
                                    ELSE ChromaAdd(sakCollection, records))
               /\ sakDup' = (sakDup \/ (~addFails /\ \E r \in records :
                                                        \E c \in sakCollection : c.id = r.id))
               /\ userSessions' = [created EXCEPT ![sid] = session]
               /\ sakDb' = [sakDb EXCEPT ![sid] = session]
    /\ UNCHANGED sakLast
    /\ UNCHANGED OtherThanSak

\* POST /api/v1/documents/upload whose document cannot be processed: the session
\* exists afterwards, nothing else changes (answer 500)
UploadRejected ==
    /\ \E sid \in SessionIds :
           /\ ~userSessions[sid].present
           /\ userSessions' = GetOrCreateSession(userSessions, sid)
    /\ UNCHANGED <<sakDb, sakCollection, sakNextDoc, sakOwner, sakDup, sakLast>>
    /\ UNCHANGED OtherThanSak

\* POST /api/v1/chat: the session is looked up or created, the RAG context
\* retrieved when include_context is set and the session holds documents, the
\* reply appended and the session saved.  When the emotion detector or the
\* companion raises, the answer is 500 and nothing is saved.  The entries the
\* handler appends to chat_history and emotions are left out of the session
\* record: no retrieval reads them.
Chat ==
    /\ \E sid \in SessionIds, message \in Queries, include_context \in BOOLEAN,
          retrievalFails \in BOOLEAN, companionFails \in BOOLEAN :
           LET created == GetOrCreateSession(userSessions, sid)
               called == include_context /\ created[sid].documents # <<>>
               got == IF called
                          THEN RetrieveContext(sakCollection, message, sid, TopK,
                                               RetrieveThreshold, retrievalFails)
                          ELSE [raw |-> <<>>, context |-> <<>>]
           IN  /\ called \/ ~retrievalFails
               /\ sakLast' = [kind |-> IF companionFails THEN "error" ELSE "chat",
                              session |-> sid, query |-> message,
                              called |-> called, failed |-> called /\ retrievalFails,
                              raw |-> got.raw, context |-> got.context]
               /\ userSessions' = created
               /\ sakDb' = (IF companionFails THEN sakDb
                            ELSE [sakDb EXCEPT ![sid] = created[sid]])
    /\ UNCHANGED <<sakCollection, sakNextDoc, sakOwner, sakDup>>
    /\ UNCHANGED OtherThanSak

\* the process restarts: user_sessions is empty again, the database and the
\* persistent collection stay
Restart ==
    /\ \E sid \in SessionIds : userSessions[sid].present
    /\ userSessions' = [sid \in SessionIds |-> NoSession]
    /\ UNCHANGED <<sakDb, sakCollection, sakNextDoc, sakOwner, sakDup, sakLast>>
    /\ UNCHANGED OtherThanSak

\* GET /api/v1/session/<id>: a session missing from user_sessions is loaded from
\* the database and kept in the map
GetSession ==
    /\ \E sid \in SessionIds :
           /\ ~userSessions[sid].present
           /\ sakDb[sid].present
           /\ userSessions' = [userSessions EXCEPT ![sid] = sakDb[sid]]
    /\ UNCHANGED <<sakDb, sakCollection, sakNextDoc, sakOwner, sakDup, sakLast>>
    /\ UNCHANGED OtherThanSak

NextSak == UploadDocument \/ UploadRejected \/ Chat \/ Restart \/ GetSession

-----------------------------------------------------------------------------
(* Ingestion into RAGSystem's collection (Personal-Voice-Assistant) *)

\* The reference directory: file name -> number of chunks its text splits into.
ReferencePdfs == [name \in {"guide.pdf", "safety.pdf"} |-> IF name = "guide.pdf" THEN 2 ELSE 1]

\* file names a client may upload through /upload-medical-record
UploadNames == {"guide.pdf", "report.pdf"}

\* What Chroma does with an add whose id it already holds: older releases raise,
\* newer ones log and drop the record.
DuplicateModes == {"raise", "ignore"}

\* process_pdf(pdf_path): chunk i is added under the id "<filename>_chunk_<i>",
\* one collection.add per chunk; an exception ends the loop (return False).
\* st = [ids, dup]: the stored ids and whether an id already held was submitted.
RECURSIVE ProcessPdf(_, _, _, _, _)
ProcessPdf(st, filename, i, n, mode) ==
    IF i >= n THEN st
    ELSE LET chunk_id == <<filename, i>>
             held == \E k \in 1..Len(st.ids) : st.ids[k] = chunk_id
         IN  IF held
                 THEN IF mode = "raise" THEN [st EXCEPT !.dup = TRUE]
                      ELSE ProcessPdf([st EXCEPT !.dup = TRUE], filename, i + 1, n, mode)
                 ELSE ProcessPdf([st EXCEPT !.ids = Append(@, chunk_id)], filename, i + 1, n, mode)

\* process_reference_pdfs(): process_pdf for every PDF of the directory
RECURSIVE ProcessReferencePdfs(_, _, _)
ProcessReferencePdfs(st, names, mode) ==
    IF names = {} THEN st
    ELSE LET name == CHOOSE x \in names : TRUE
         IN  ProcessReferencePdfs(ProcessPdf(st, name, 0, ReferencePdfs[name], mode),
                                  names \ {name}, mode)

PvaInit ==
    /\ pvaCollection = <<>>
    /\ pvaIngests = 0
    /\ pvaDup = FALSE

PvaIdle == PvaInit

\* POST /upload-medical-record: the file is saved and process_pdf run on it
UploadMedicalRecord ==
    /\ pvaIngests < MaxIngests
    /\ \E filename \in UploadNames, n \in 0..2, mode \in DuplicateModes :
           LET st == ProcessPdf([ids |-> pvaCollection, dup |-> pvaDup], filename, 0, n, mode)
           IN  /\ pvaCollection' = st.ids
               /\ pvaDup' = st.dup
    /\ pvaIngests' = pvaIngests + 1
    /\ UNCHANGED OtherThanPva

\* POST /initialize-rag: process_reference_pdfs over the reference directory
InitializeRag ==
    /\ pvaIngests < MaxIngests
    /\ \E mode \in DuplicateModes :
           LET st == ProcessReferencePdfs([ids |-> pvaCollection, dup |-> pvaDup],
                                          DOMAIN ReferencePdfs, mode)
           IN  /\ pvaCollection' = st.ids
               /\ pvaDup' = st.dup
    /\ pvaIngests' = pvaIngests + 1
    /\ UNCHANGED OtherThanPva

\* every ingestion path of the two applications
NextIngest == UploadMedicalRecord \/ InitializeRag \/ UploadDocument \/ UploadRejected


-----------------------------------------------------------------------------
(* Chat-session files (Personal-Voice-Assistant app_suzi.py) *)

\* how many messages save_chat_session keeps
SessionCap == 20

ChatSessionIds == {"s1", "s2"}

\* the n-th message of a long conversation
PadMessage(n) == [role |-> IF n % 2 = 1 THEN "user" ELSE "model", text |-> n]

\* Message lists: nothing or SessionCap - 1 numbered messages, followed by up to
\* MaxSessionFree further messages.
MessageLists ==
    {[i \in 1..p |-> PadMessage(i)] \o f :
        p \in {0, SessionCap - 1},
        f \in SeqsUpTo([role : {"user"}, text : {"hi"}], MaxSessionFree)}

\* json.dump of the 'messages' list: the text of the file, token by token
RECURSIVE JsonDumpMessages(_)
JsonDumpMessages(messages) ==
    IF messages = <<>> THEN <<>>
    ELSE <<"{", "role", Head(messages).role, "text", Head(messages).text, "}">>
             \o JsonDumpMessages(Tail(messages))

\* json.load of that text: one message per {...} group
RECURSIVE JsonLoadMessages(_)
JsonLoadMessages(tokens) ==
    IF Len(tokens) < 6 THEN <<>>
    ELSE <<[role |-> tokens[3], text |-> tokens[5]]>>
             \o JsonLoadMessages(SubSeq(tokens, 7, Len(tokens)))

NoFile == [exists |-> FALSE, session_id |-> "", messages |-> <<>>]

\* save_chat_session keeping every message
SaveChatSessionUncapped(files, session_id, messages, ioFails) ==
    IF ioFails THEN [files |-> files, result |-> FALSE]
    ELSE [files |-> [files EXCEPT ![session_id] =
                        [exists |-> TRUE, session_id |-> session_id,
                         messages |-> JsonDumpMessages(messages)]],
          result |-> TRUE]

\* save_chat_session(session_id, messages): the file session_<id>.json is
\* rewritten with messages[-20:]; an exception leaves it alone and returns False
SaveChatSession(files, session_id, messages, ioFails) ==
    IF ioFails THEN [files |-> files, result |-> FALSE]
    ELSE [files |-> [files EXCEPT ![session_id] =
                        [exists |-> TRUE, session_id |-> session_id,
                         messages |-> JsonDumpMessages(LastN(messages, SessionCap))]],
          result |-> TRUE]

\* load_chat_session(session_id): session_data.get('messages', []) of the file,
\* [] when there is no file or reading raises
LoadChatSession(files, session_id, ioFails) ==
    IF ~files[session_id].exists \/ ioFails THEN <<>>
    ELSE JsonLoadMessages(files[session_id].messages)

NoChatFileOp == [op |-> "none", session_id |-> "s1", result |-> <<>>, ok |-> TRUE]

CfInit ==
    /\ cfFiles = [id \in ChatSessionIds |-> NoFile]
    /\ cfSaved = [id \in ChatSessionIds |-> [saved |-> FALSE, messages |-> <<>>]]
    /\ cfLast = NoChatFileOp

CfIdle == CfInit

\* a save, by /chat after a reply or directly
CallSaveChatSession ==
    /\ \E id \in ChatSessionIds, messages \in MessageLists, ioFails \in BOOLEAN :
           LET r == SaveChatSession(cfFiles, id, messages, ioFails)
           IN  /\ cfFiles' = r.files
               /\ cfSaved' = (IF r.result
                                  THEN [cfSaved EXCEPT ![id] = [saved |-> TRUE,
                                                                messages |-> messages]]
                                  ELSE cfSaved)
               /\ cfLast' = [op |-> "save", session_id |-> id, result |-> <<>>,
                             ok |-> r.result]
    /\ UNCHANGED OtherThanCf

\* GET /chat-session/<id>
CallLoadChatSession ==
    /\ \E id \in ChatSessionIds, ioFails \in BOOLEAN :
           /\ ioFails => cfFiles[id].exists
           /\ cfLast' = [op |-> "load", session_id |-> id,
                         result |-> LoadChatSession(cfFiles, id, ioFails), ok |-> ~ioFails]
    /\ UNCHANGED <<cfFiles, cfSaved>>
    /\ UNCHANGED OtherThanCf

\* DELETE /chat-session/<id>: the file is removed (404 when there is none)
DeleteChatSession ==
    /\ \E id \in ChatSessionIds :
           /\ cfFiles' = [cfFiles EXCEPT ![id] = NoFile]
           /\ cfSaved' = [cfSaved EXCEPT ![id] = [saved |-> FALSE, messages |-> <<>>]]
           /\ cfLast' = [op |-> "delete", session_id |-> id, result |-> <<>>,
                         ok |-> cfFiles[id].exists]
    /\ UNCHANGED OtherThanCf

\* DELETE /clear-all-sessions: the directory is removed and made again
ClearAllChatSessions ==
    /\ cfFiles' = [id \in ChatSessionIds |-> NoFile]
    /\ cfSaved' = [id \in ChatSessionIds |-> [saved |-> FALSE, messages |-> <<>>]]
    /\ cfLast' = [NoChatFileOp EXCEPT !.op = "clear"]
    /\ UNCHANGED OtherThanCf

NextCf == CallSaveChatSession \/ CallLoadChatSession \/ DeleteChatSession
              \/ ClearAllChatSessions


-----------------------------------------------------------------------------
(* DatabaseManager (standalone-sakhi-ai src/utils/database.py) *)

DbSessionIds == {"s1", "s2"}

SessionKeys == <<"chat_history", "documents", "emotions", "assessments">>

\* k copies of the items of one exchange
RECURSIVE Repeat(_, _)
Repeat(items, k) == IF k = 0 THEN <<>> ELSE items \o Repeat(items, k - 1)

\* The sessions handed to save_session: the four lists the application keeps,
\* after k chat exchanges and one assessment, holding some documents.
DbSessions ==
    {[id |-> id, chat_history |-> Repeat(<<"user", "assistant">>, k),
      documents |-> docs, emotions |-> Repeat(<<"joy">>, k),
      assessments |-> IF k = 0 THEN <<>> ELSE <<"a_" \o id>>] :
        id \in DbSessionIds, k \in 0..MaxDbExchanges,
        docs \in {<<>>, <<"d1">>, <<"d2">>, <<"d1", "d2">>}}

\* json.dumps of the dict of the four lists: the text kept in sessions.data
JsonDumpsSession(s) ==
    <<"chat_history", "[">> \o s.chat_history \o <<"]", "documents", "[">> \o s.documents
        \o <<"]", "emotions", "[">> \o s.emotions \o <<"]", "assessments", "[">>
        \o s.assessments \o <<"]">>

\* the list that follows a key in that text
JsonListOf(tokens, key) ==
    LET k == CHOOSE i \in 1..Len(tokens) : tokens[i] = key
        close == CHOOSE j \in (k + 1)..Len(tokens) :
                     tokens[j] = "]" /\ \A h \in (k + 1)..(j - 1) : tokens[h] # "]"
    IN  SubSeq(tokens, k + 2, close - 1)

\* json.loads(row[3])
JsonLoadsSession(tokens) == [key \in {SessionKeys[i] : i \in 1..4} |-> JsonListOf(tokens, key)]

\* the rows of one table that belong to a session, in insertion order
RowsOf(rows, session_id) == SelectSeq(rows, LAMBDA r : r.session_id = session_id)

\* DELETE FROM <table> WHERE session_id = ?
DeleteRows(rows, session_id) == SelectSeq(rows, LAMBDA r : r.session_id # session_id)

\* one INSERT per item of the list
InsertRows(rows, session_id, items) ==
    rows \o [i \in 1..Len(items) |-> [session_id |-> session_id, item |-> items[i]]]

\* the inserts without the DELETE in front of them
ReplaceRowsKeepingOld(rows, session_id, items) == InsertRows(rows, session_id, items)

\* DELETE the session's rows of a table, then INSERT its current items
ReplaceRows(rows, session_id, items) ==
    InsertRows(DeleteRows(rows, session_id), session_id, items)

\* documents.id and assessments.id are primary keys: an INSERT of an id that
\* another row holds, or that occurs twice in the list, raises IntegrityError
KeyConflict(rows, session_id, items) ==
    \/ \E i, j \in 1..Len(items) : i # j /\ items[i] = items[j]
    \/ \E i \in 1..Len(items) :
           \E k \in 1..Len(rows) : rows[k].item = items[i] /\ rows[k].session_id # session_id

NoDb == [sessions |-> [id \in DbSessionIds |-> [present |-> FALSE]],
         documents |-> <<>>, emotions |-> <<>>, assessments |-> <<>>, chat_history |-> <<>>]

\* save_session(session_data): INSERT OR REPLACE of the sessions row, then the
\* four tables; any exception rolls the transaction back and returns False
SaveSession(db, s, ioFails) ==
    IF ioFails \/ KeyConflict(db.documents, s.id, s.documents)
           \/ KeyConflict(db.assessments, s.id, s.assessments)
        THEN [db |-> db, result |-> FALSE]
        ELSE [db |-> [sessions |-> [db.sessions EXCEPT ![s.id] =
                                       [present |-> TRUE, data |-> JsonDumpsSession(s),
                                        chat_history_count |-> Len(s.chat_history),
                                        documents_count |-> Len(s.documents),
                                        emotions_count |-> Len(s.emotions),
                                        assessments_count |-> Len(s.assessments)]],
                      documents |-> ReplaceRows(db.documents, s.id, s.documents),
                      emotions |-> ReplaceRows(db.emotions, s.id, s.emotions),
                      assessments |-> ReplaceRows(db.assessments, s.id, s.assessments),
                      chat_history |-> ReplaceRows(db.chat_history, s.id, s.chat_history)],
              result |-> TRUE]

NoneSession == [found |-> FALSE]

\* load_session(session_id): the four lists of the data column with the id, or
\* None when there is no row or reading raises
LoadSession(db, session_id, ioFails) ==
    IF ioFails \/ ~db.sessions[session_id].present THEN NoneSession
    ELSE LET data == JsonLoadsSession(db.sessions[session_id].data)
         IN  [found |-> TRUE, id |-> session_id, chat_history |-> data["chat_history"],
              documents |-> data["documents"], emotions |-> data["emotions"],
              assessments |-> data["assessments"]]

\* delete_session(session_id)
DeleteSession(db, session_id, ioFails) ==
    IF ioFails THEN [db |-> db, result |-> FALSE]
    ELSE [db |-> [sessions |-> [db.sessions EXCEPT ![session_id] = [present |-> FALSE]],
                  documents |-> DeleteRows(db.documents, session_id),
                  emotions |-> DeleteRows(db.emotions, session_id),
                  assessments |-> DeleteRows(db.assessments, session_id),
                  chat_history |-> DeleteRows(db.chat_history, session_id)],
          result |-> TRUE]

DbInit ==
    /\ dbTables = NoDb
    /\ dbSaved = [id \in DbSessionIds |-> NoneSession]
    /\ dbLast = [op |-> "none", id |-> "s1", ok |-> TRUE, result |-> NoneSession]

DbIdle == DbInit

CallSaveSession ==
    /\ \E s \in DbSessions, ioFails \in BOOLEAN :
           LET r == SaveSession(dbTables, s, ioFails)
           IN  /\ dbTables' = r.db
               /\ dbSaved' = (IF r.result
                                  THEN [dbSaved EXCEPT ![s.id] =
                                           [found |-> TRUE, id |-> s.id,
                                            chat_history |-> s.chat_history,
                                            documents |-> s.documents,
                                            emotions |-> s.emotions,
                                            assessments |-> s.assessments]]
                                  ELSE dbSaved)
               /\ dbLast' = [op |-> "save", id |-> s.id, ok |-> r.result,
                             result |-> NoneSession]
    /\ UNCHANGED OtherThanDb

CallLoadSession ==
    /\ \E id \in DbSessionIds, ioFails \in BOOLEAN :
           dbLast' = [op |-> "load", id |-> id, ok |-> ~ioFails,
                      result |-> LoadSession(dbTables, id, ioFails)]
    /\ UNCHANGED <<dbTables, dbSaved>>
    /\ UNCHANGED OtherThanDb

CallDeleteSession ==
    /\ \E id \in DbSessionIds, ioFails \in BOOLEAN :
           LET r == DeleteSession(dbTables, id, ioFails)
           IN  /\ dbTables' = r.db
               /\ dbSaved' = (IF r.result THEN [dbSaved EXCEPT ![id] = NoneSession]
                              ELSE dbSaved)
               /\ dbLast' = [op |-> "delete", id |-> id, ok |-> r.result,
                             result |-> NoneSession]
    /\ UNCHANGED OtherThanDb

NextDb == CallSaveSession \/ CallLoadSession \/ CallDeleteSession


-----------------------------------------------------------------------------
(* MedicalContextManager.search_context (Personal-Voice-Assistant app_suzi.py) *)

\* max_chars: the default, and the value /chat passes
MaxCharsDefault == 2000
MaxCharsChat == 100

\* n copies of a character
CharRun(c, n) == [i \in 1..n |-> c]

\* str.lower() on the letters of the model
LowerText(t) == [i \in 1..Len(t) |-> IF t[i] = "C" THEN "c" ELSE t[i]]

WordChars == {"c", "a", "l", "m", "C", "x", "_"}

\* re.findall(r'\b\w+\b', text): the maximal runs of word characters
RECURSIVE FindWords(_, _, _)
FindWords(t, word, acc) ==
    IF t = <<>> THEN (IF word = <<>> THEN acc ELSE Append(acc, word))
    ELSE IF Head(t) \in WordChars
        THEN FindWords(Tail(t), Append(word, Head(t)), acc)
        ELSE FindWords(Tail(t), <<>>, IF word = <<>> THEN acc ELSE Append(acc, word))

\* sub in text
Contains(text, sub) ==
    \E i \in 1..(Len(text) - Len(sub) + 1) : SubSeq(text, i, i + Len(sub) - 1) = sub

\* any(keyword in text for keyword in keywords if len(keyword) > 3)
AnyKeywordIn(text, keywords) ==
    \E k \in 1..Len(keywords) : Len(keywords[k]) > 3 /\ Contains(text, keywords[k])

\* sep.join(parts)
RECURSIVE JoinWith(_, _)
JoinWith(sep, parts) ==
    IF parts = <<>> THEN <<>>
    ELSE IF Len(parts) = 1 THEN Head(parts)
    ELSE Head(parts) \o sep \o JoinWith(sep, Tail(parts))

\* the loop over the lines of pdf_content: the five-line window around every
\* matching line, kept when not blank and not yet present
RECURSIVE ReferenceSections(_, _, _, _)
ReferenceSections(lines, i, keywords, sections) ==
    IF i >= Len(lines) THEN sections
    ELSE LET start == Max(0, i - 2)
             end == Min(Len(lines), i + 3)
             context_section == JoinWith(<<"\n">>, Slice(lines, start, end))
             present == \E k \in 1..Len(sections) : sections[k] = context_section
         IN  ReferenceSections(lines, i + 1, keywords,
                 IF /\ AnyKeywordIn(LowerText(lines[i + 1]), keywords)
                    /\ Strip(context_section) # <<>>
                    /\ ~present
                     THEN Append(sections, context_section)
                     ELSE sections)

ReferenceHeader == CharRun("=", 27)
ReportsHeader == CharRun("=", 28)
TruncationNotice == <<"\n", "\n">> \o CharRun(".", 33)

\* "From <filename> (uploaded <upload_date>):\n" followed by content[:500]
ReportPart(report) ==
    CharRun("F", 5 + report.filename + 11 + 26 + 2) \o <<"\n">> \o Slice(report.content, 0, 500)

RECURSIVE ReportParts(_, _)
ReportParts(reports, keywords) ==
    IF reports = <<>> THEN <<>>
    ELSE (IF AnyKeywordIn(LowerText(Head(reports).content), keywords)
              THEN <<ReportPart(Head(reports))>> ELSE <<>>)
             \o ReportParts(Tail(reports), keywords)

\* combined_context[:max_chars] + "\n\n[Content truncated for length...]"
LimitTotal(combined_context, max_chars) ==
    IF Len(combined_context) > max_chars
        THEN Slice(combined_context, 0, max_chars) \o TruncationNotice
        ELSE combined_context

\* search_context(query, max_chars), pdf_content given as its lines
SearchContext(query, max_chars, pdf_lines, user_reports) ==
    LET keywords == FindWords(LowerText(query), <<>>, <<>>)
        reference_sections == ReferenceSections(pdf_lines, 0, keywords, <<>>)
        reference_parts == IF pdf_lines # <<>> /\ reference_sections # <<>>
                               THEN <<ReferenceHeader>> \o Slice(reference_sections, 0, 2)
                               ELSE <<>>
        report_parts == IF user_reports # <<>>
                            THEN <<ReportsHeader>> \o ReportParts(user_reports, keywords)
                            ELSE <<>>
    IN  IF keywords = <<>> THEN <<>>
        ELSE LimitTotal(JoinWith(<<"\n", "\n">>, reference_parts \o report_parts), max_chars)

\* queries: a keyword, a capitalised keyword in a sentence, only short words,
\* no word character at all, the empty query
SearchQueries ==
    {<<"c", "a", "l", "m">>, <<"C", "a", "l", "m", " ", "x", "?">>, <<"a", " ", "x">>,
     <<"?", "!">>, <<>>}

\* lines of the reference text: one naming the keyword, one that does not, a blank
PdfLineKinds ==
    {<<"C", "a", "l", "m">> \o CharRun("x", 30), CharRun("x", 34), <<>>}

\* user reports (content already cut to 2000 characters when loaded)
ReportKinds ==
    {[filename |-> 5, content |-> <<"c", "a", "l", "m", " ">> \o CharRun("x", 45)],
     [filename |-> 5, content |-> CharRun("x", 20)]}

SrInit ==
    /\ srPc = "ready"
    /\ srQuery \in SearchQueries
    /\ srMaxChars \in {MaxCharsChat, MaxCharsDefault}
    /\ srPdfLines \in SeqsUpTo(PdfLineKinds, MaxPdfLines)
    /\ srReports \in SeqsUpTo(ReportKinds, MaxReports)
    /\ srOut = <<>>

SrIdle ==
    /\ srPc = "idle"
    /\ srQuery = <<>>
    /\ srMaxChars = MaxCharsDefault
    /\ srPdfLines = <<>>
    /\ srReports = <<>>
    /\ srOut = <<>>

CallSearchContext ==
    /\ srPc = "ready"
    /\ srOut' = SearchContext(srQuery, srMaxChars, srPdfLines, srReports)
    /\ srPc' = "done"
    /\ UNCHANGED <<srQuery, srMaxChars, srPdfLines, srReports>>
    /\ UNCHANGED OtherThanSr

NextSr == CallSearchContext


-----------------------------------------------------------------------------
(* Task store (Personal-Voice-Assistant app_suzi.py): tasks/tasks.json *)

TaskStatuses == {"pending", "completed", "cancelled"}

\* The status field of a PUT body; "" stands for a missing or empty one.
StatusInputs == TaskStatuses \cup {"", "done"}

\* The JSON body of a PUT: an object, or a value without .get (null, a list)
PutBodies ==
    {[object |-> TRUE, status |-> s] : s \in StatusInputs}
        \cup {[object |-> FALSE, status |-> ""]}

\* add_task: the task appended to the loaded list, its id len(tasks) + 1
AddTask(tasks, title) ==
    Append(tasks, [id |-> Len(tasks) + 1, title |-> title, status |-> "pending",
                   completed_at |-> "null"])

\* the positions of the tasks with an id
Holding(tasks, task_id) == {i \in 1..Len(tasks) : tasks[i].id = task_id}

\* update_task_status: the first task with the id gets the status, and
\* completed_at when the status is 'completed'; None when no task has the id
UpdateTaskStatus(tasks, task_id, status) ==
    IF Holding(tasks, task_id) = {} THEN [tasks |-> tasks, found |-> FALSE]
    ELSE LET i == CHOOSE k \in Holding(tasks, task_id) :
                      \A h \in Holding(tasks, task_id) : k <= h
         IN  [tasks |-> [tasks EXCEPT ![i] =
                            [@ EXCEPT !.status = status,
                                      !.completed_at = IF status = "completed"
                                                           THEN "now" ELSE @]],
              found |-> TRUE]

\* delete_task: every task with the id is dropped
DeleteTask(tasks, task_id) == SelectSeq(tasks, LAMBDA t : t.id # task_id)

\* PUT /tasks/<id> that hands any status to update_task_status
UpdateTaskUnvalidated(tasks, task_id, data) ==
    IF ~data.object THEN [tasks |-> tasks, code |-> 500]
    ELSE LET r == UpdateTaskStatus(tasks, task_id, data.status)
         IN  [tasks |-> r.tasks, code |-> IF r.found THEN 200 ELSE 404]

\* PUT /tasks/<id>: 500 when data.get raises, 400 for a missing or unknown
\* status, else update_task_status, 404 when it found no task
UpdateTask(tasks, task_id, data) ==
    IF ~data.object THEN [tasks |-> tasks, code |-> 500]
    ELSE IF data.status = "" THEN [tasks |-> tasks, code |-> 400]
    ELSE IF data.status \notin TaskStatuses THEN [tasks |-> tasks, code |-> 400]
    ELSE LET r == UpdateTaskStatus(tasks, task_id, data.status)
         IN  [tasks |-> r.tasks, code |-> IF r.found THEN 200 ELSE 404]

NoTaskRequest ==
    [op |-> "none", task_id |-> 0, object |-> TRUE, status |-> "", code |-> 0,
     before |-> <<>>]

TaskThreads == {1, 2}

IdleThread == [pc |-> "idle", op |-> "none", arg |-> 0, status |-> "", tasks |-> <<>>]

TkInit ==
    /\ tkStore = <<>>
    /\ tkCreated = 0
    /\ tkLast = NoTaskRequest
    /\ tkThreads = [t \in TaskThreads |-> IdleThread]
    /\ tkAdded = {}
    /\ tkRemoved = {}

TkIdle == TkInit

\* POST /tasks with a title, or /chat whose reply suggests a task: add_task
CreateTask ==
    /\ tkCreated < MaxTaskAdds
    /\ tkCreated' = tkCreated + 1
    /\ tkStore' = AddTask(tkStore, tkCreated + 1)
    /\ tkLast' = [op |-> "post", task_id |-> Len(tkStore) + 1, object |-> TRUE,
                  status |-> "pending", code |-> 201, before |-> tkStore]
    /\ UNCHANGED <<tkThreads, tkAdded, tkRemoved>>
    /\ UNCHANGED OtherThanTk

\* PUT /tasks/<id>
PutTask ==
    /\ \E task_id \in 1..(MaxTaskAdds + 1), data \in PutBodies :
           LET r == UpdateTask(tkStore, task_id, data)
           IN  /\ tkStore' = r.tasks
               /\ tkLast' = [op |-> "put", task_id |-> task_id, object |-> data.object,
                             status |-> data.status, code |-> r.code, before |-> tkStore]
    /\ UNCHANGED <<tkCreated, tkThreads, tkAdded, tkRemoved>>
    /\ UNCHANGED OtherThanTk

\* DELETE /tasks/<id>: delete_task returns True, the answer is 200
RemoveTask ==
    /\ \E task_id \in 1..(MaxTaskAdds + 1) :
           /\ tkStore' = DeleteTask(tkStore, task_id)
           /\ tkLast' = [op |-> "delete", task_id |-> task_id, object |-> TRUE,
                         status |-> "", code |-> 200, before |-> tkStore]
    /\ UNCHANGED <<tkCreated, tkThreads, tkAdded, tkRemoved>>
    /\ UNCHANGED OtherThanTk

NextTk == CreateTask \/ PutTask \/ RemoveTask

\* ---- the same operations, one step per file access, on two request threads

\* a request arrives and its handler runs load_tasks()
ThreadLoadTasks(t) ==
    /\ tkThreads[t].pc = "idle"
    /\ \/ /\ tkCreated < MaxThreadAdds
          /\ tkCreated' = tkCreated + 1
          /\ tkThreads' = [tkThreads EXCEPT ![t] =
                              [pc |-> "loaded", op |-> "add", arg |-> tkCreated + 1,
                               status |-> "pending", tasks |-> tkStore]]
       \/ /\ \E task_id \in 1..MaxThreadAdds, status \in TaskStatuses :
                 tkThreads' = [tkThreads EXCEPT ![t] =
                                  [pc |-> "loaded", op |-> "update", arg |-> task_id,
                                   status |-> status, tasks |-> tkStore]]
          /\ UNCHANGED tkCreated
       \/ /\ \E task_id \in 1..MaxThreadAdds :
                 tkThreads' = [tkThreads EXCEPT ![t] =
                                  [pc |-> "loaded", op |-> "delete", arg |-> task_id,
                                   status |-> "", tasks |-> tkStore]]
          /\ UNCHANGED tkCreated
    /\ UNCHANGED <<tkStore, tkLast, tkAdded, tkRemoved>>
    /\ UNCHANGED OtherThanTk

\* the handler changes its list, runs save_tasks() and answers
ThreadSaveTasks(t) ==
    /\ tkThreads[t].pc = "loaded"
    /\ LET th == tkThreads[t]
           updated == UpdateTaskStatus(th.tasks, th.arg, th.status)
       IN  /\ tkStore' = (CASE th.op = "add" -> AddTask(th.tasks, th.arg)
                            [] th.op = "update" -> (IF updated.found THEN updated.tasks
                                                    ELSE tkStore)
                            [] OTHER -> DeleteTask(th.tasks, th.arg))
           /\ tkAdded' = (IF th.op = "add" THEN tkAdded \cup {th.arg} ELSE tkAdded)
           /\ tkRemoved' = (IF th.op = "delete"
                                THEN tkRemoved \cup {th.tasks[i].title :
                                                        i \in Holding(th.tasks, th.arg)}
                                ELSE tkRemoved)
    /\ tkThreads' = [tkThreads EXCEPT ![t] = IdleThread]
    /\ UNCHANGED <<tkCreated, tkLast>>
    /\ UNCHANGED OtherThanTk

NextTkThreads == \E t \in TaskThreads : ThreadLoadTasks(t) \/ ThreadSaveTasks(t)


-----------------------------------------------------------------------------
(* Client profiles (Personal-Voice-Assistant app.py): one module-level
   SQLAlchemy session, db_session, serves every request *)

\* the mood_score of a request body (a 1-10 scale); a column holding NULL
\* is <<>>, one holding a score <<score>>
MoodScores == {3, 7}

\* the email of a request body; "null" stands for none given (NULL never
\* collides under the unique constraint)
ClientEmails == {"null", "a", "b"}

EmailHeld(clients, email) ==
    email # "null" /\ \E i \in 1..Len(clients) : clients[i].email = email

\* db_session.add(client); db_session.commit(): the flush inside commit hits
\* the unique constraint on clients.email, rolls back and raises
\* IntegrityError, leaving the session waiting for rollback(); on a session in
\* that state every operation raises
CommitClient(clients, failed, email) ==
    IF failed THEN [clients |-> clients, failed |-> TRUE, raised |-> "PendingRollback"]
    ELSE IF EmailHeld(clients, email)
        THEN [clients |-> clients, failed |-> TRUE, raised |-> "IntegrityError"]
    ELSE [clients |-> Append(clients, [email |-> email, session_count |-> 0,
                                       current_mood_score |-> <<>>]),
          failed |-> FALSE, raised |-> "none"]

NoClientRequest ==
    [op |-> "none", arg |-> "null", code |-> 0, held |-> FALSE, known |-> FALSE,
     before |-> <<>>]

ClInit ==
    /\ clClients = <<>>
    /\ clMoods = <<>>
    /\ clFailed = FALSE
    /\ clLast = NoClientRequest

ClIdle == ClInit

\* POST /client-profile: 201, 409 on IntegrityError (no rollback), else 500
CreateClientProfile ==
    /\ Len(clClients) < MaxClients
    /\ \E email \in ClientEmails :
           LET r == CommitClient(clClients, clFailed, email)
           IN  /\ clClients' = r.clients
               /\ clFailed' = r.failed
               /\ clLast' = [op |-> "create", arg |-> email,
                             code |-> (CASE r.raised = "none" -> 201
                                         [] r.raised = "IntegrityError" -> 409
                                         [] OTHER -> 500),
                             held |-> EmailHeld(clClients, email), known |-> FALSE,
                             before |-> clClients]
    /\ UNCHANGED clMoods
    /\ UNCHANGED OtherThanCl

\* GET /client-profile/<id>: db_session.query(...).first(); 404 for no row,
\* 500 when the query raises
GetClientProfile ==
    /\ \E client_id \in 1..MaxClients :
           clLast' = [op |-> "get", arg |-> "null",
                      code |-> (IF clFailed THEN 500
                                ELSE IF client_id <= Len(clClients) THEN 200 ELSE 404),
                      held |-> FALSE, known |-> client_id <= Len(clClients),
                      before |-> clClients]
    /\ UNCHANGED <<clClients, clMoods, clFailed>>
    /\ UNCHANGED OtherThanCl

\* POST /mood-entry with a mood_score: the entry is committed under the
\* client_id of the body (SQLite checks no foreign key), then the client with
\* that id, if any, gets the score and a raised session_count, committed;
\* 500 when the session raises
CreateMoodEntry ==
    /\ Len(clMoods) < MaxMoods
    /\ \E client_id \in 1..MaxClients, mood_score \in MoodScores :
           /\ clMoods' = (IF clFailed THEN clMoods
                          ELSE Append(clMoods, [client_id |-> client_id,
                                                mood_score |-> mood_score]))
           /\ clClients' = (IF ~clFailed /\ client_id <= Len(clClients)
                               THEN [clClients EXCEPT
                                        ![client_id].current_mood_score = <<mood_score>>,
                                        ![client_id].session_count = @ + 1]
                               ELSE clClients)
           /\ clLast' = [op |-> "mood", arg |-> "null",
                         code |-> (IF clFailed THEN 500 ELSE 201),
                         held |-> FALSE, known |-> client_id <= Len(clClients),
                         before |-> clClients]
    /\ UNCHANGED clFailed
    /\ UNCHANGED OtherThanCl

NextCl == CreateClientProfile \/ GetClientProfile \/ CreateMoodEntry


-----------------------------------------------------------------------------
(* One session of the standalone app through its request handlers
   (standalone-sakhi-ai app.py), the chat handler one step per stretch between
   its two appends, on the threads of the Flask server *)

TheSession == "s1"

ChatThreads == {1, 2}

NoMemorySession ==
    [present |-> FALSE, id |-> TheSession, chat_history |-> <<>>, documents |-> <<>>,
     emotions |-> <<>>, assessments |-> <<>>]

\* the entries the n-th request adds to the lists of the session
UserEntry(n) == "user_" \o ToString(n)

AssistantEntry(n) == "assistant_" \o ToString(n)

EmotionEntry(n) == "emotion_" \o ToString(n)

DocumentEntry(n) == "document_" \o ToString(n)

AssessmentEntry(n) == "assessment_" \o ToString(n)

\* get_or_create_session(session_id): the entry of user_sessions, a new empty
\* one when the id is not in the map
SessionFor(session) ==
    IF session.present THEN session ELSE [NoMemorySession EXCEPT !.present = TRUE]

\* the entries of the four lists of a session
EntriesOf(session) ==
    UNION {{<<SessionKeys[k], session[SessionKeys[k]][i]>> :
                i \in 1..Len(session[SessionKeys[k]])} : k \in 1..4}

\* the entries of the session the database holds
PersistedEntries(db) ==
    LET loaded == LoadSession(db, TheSession, FALSE)
    IN  IF loaded.found THEN EntriesOf(loaded) ELSE {}

SsInit ==
    /\ ssSession = NoMemorySession
    /\ ssDb = NoDb
    /\ ssCount = 0
    /\ ssThreads = [t \in ChatThreads |-> 0]
    /\ ssPersisted = {}

SsIdle == SsInit

\* db_manager.save_session(session) at the end of a handler
SaveAfter(session) ==
    LET r == SaveSession(ssDb, session, FALSE)
    IN  /\ ssSession' = session
        /\ ssDb' = r.db
        /\ ssPersisted' = ssPersisted \cup PersistedEntries(r.db)

\* /api/v1/chat up to the call of the companion: the user entry is appended
ChatAppendUser(t) ==
    /\ ssThreads[t] = 0
    /\ ssCount < MaxSessionRequests
    /\ ssCount' = ssCount + 1
    /\ ssThreads' = [ssThreads EXCEPT ![t] = ssCount + 1]
    /\ ssSession' = [SessionFor(ssSession) EXCEPT
                        !.chat_history = Append(@, UserEntry(ssCount + 1))]
    /\ UNCHANGED <<ssDb, ssPersisted>>
    /\ UNCHANGED OtherThanSs

\* /api/v1/chat from the companion's answer on: the assistant entry and the
\* emotion are appended and the session is saved
ChatAppendAssistant(t) ==
    /\ ssThreads[t] # 0
    /\ ssThreads' = [ssThreads EXCEPT ![t] = 0]
    /\ SaveAfter([ssSession EXCEPT
                     !.chat_history = Append(@, AssistantEntry(ssThreads[t])),
                     !.emotions = Append(@, EmotionEntry(ssThreads[t]))])
    /\ UNCHANGED ssCount
    /\ UNCHANGED OtherThanSs

\* /api/v1/documents/upload of a PDF that is processed and indexed
UploadToSession ==
    /\ ssCount < MaxSessionRequests
    /\ ssCount' = ssCount + 1
    /\ SaveAfter([SessionFor(ssSession) EXCEPT !.documents = Append(@, DocumentEntry(ssCount + 1))])
    /\ UNCHANGED ssThreads
    /\ UNCHANGED OtherThanSs

\* /api/v1/emotion/analyze of a text
AnalyzeEmotion ==
    /\ ssCount < MaxSessionRequests
    /\ ssCount' = ssCount + 1
    /\ SaveAfter([SessionFor(ssSession) EXCEPT !.emotions = Append(@, EmotionEntry(ssCount + 1))])
    /\ UNCHANGED ssThreads
    /\ UNCHANGED OtherThanSs

\* /api/v1/assessment/mental-health with responses
MentalHealthAssessment ==
    /\ ssCount < MaxSessionRequests
    /\ ssCount' = ssCount + 1
    /\ SaveAfter([SessionFor(ssSession) EXCEPT !.assessments = Append(@, AssessmentEntry(ssCount + 1))])
    /\ UNCHANGED ssThreads
    /\ UNCHANGED OtherThanSs

\* /api/v1/session/<id>: a session missing from user_sessions is loaded from
\* the database into it
GetSessionById ==
    /\ ~ssSession.present
    /\ LET loaded == LoadSession(ssDb, TheSession, FALSE)
       IN  ssSession' = (IF loaded.found
                             THEN [present |-> TRUE, id |-> loaded.id,
                                   chat_history |-> loaded.chat_history,
                                   documents |-> loaded.documents,
                                   emotions |-> loaded.emotions,
                                   assessments |-> loaded.assessments]
                             ELSE ssSession)
    /\ UNCHANGED <<ssDb, ssCount, ssThreads, ssPersisted>>
    /\ UNCHANGED OtherThanSs

\* the process stops and starts again: user_sessions = {} and no request runs
RestartProcess ==
    /\ ssSession.present
    /\ ssSession' = NoMemorySession
    /\ ssThreads' = [t \in ChatThreads |-> 0]
    /\ UNCHANGED <<ssDb, ssCount, ssPersisted>>
    /\ UNCHANGED OtherThanSs

NextSs ==
    \/ \E t \in ChatThreads : ChatAppendUser(t) \/ ChatAppendAssistant(t)
    \/ UploadToSession
    \/ AnalyzeEmotion
    \/ MentalHealthAssessment
    \/ GetSessionById
    \/ RestartProcess

-----------------------------------------------------------------------------
(* Specifications *)

InitChatSpec == ChatInit /\ CtxIdle /\ SplitIdle /\ CtIdle /\ SakIdle /\ PvaIdle
    /\ CfIdle
    /\ DbIdle
    /\ SrIdle
    /\ TkIdle
    /\ ClIdle
    /\ SsIdle
SpecChat == InitChatSpec /\ [][NextChat]_vars

InitCtxSpec == CtxInit /\ ChatIdle /\ SplitIdle /\ CtIdle /\ SakIdle /\ PvaIdle
    /\ CfIdle
    /\ DbIdle
    /\ SrIdle
    /\ TkIdle
    /\ ClIdle
    /\ SsIdle
SpecCtx == InitCtxSpec /\ [][NextCtx]_vars

InitSplitSpec == SplitInit /\ ChatIdle /\ CtxIdle /\ CtIdle /\ SakIdle /\ PvaIdle
    /\ CfIdle
    /\ DbIdle
    /\ SrIdle
    /\ TkIdle
    /\ ClIdle
    /\ SsIdle
SpecSplit == InitSplitSpec /\ [][NextSplit]_vars

InitCtSpec == CtInit /\ ChatIdle /\ CtxIdle /\ SplitIdle /\ SakIdle /\ PvaIdle
    /\ CfIdle
    /\ DbIdle
    /\ SrIdle
    /\ TkIdle
    /\ ClIdle
    /\ SsIdle
SpecChunkText == InitCtSpec /\ [][NextCt]_vars

InitSakSpec == SakInit /\ ChatIdle /\ CtxIdle /\ SplitIdle /\ CtIdle /\ PvaIdle
    /\ CfIdle
    /\ DbIdle
    /\ SrIdle
    /\ TkIdle
    /\ ClIdle
    /\ SsIdle
SpecSakhi == InitSakSpec /\ [][NextSak]_vars

InitIngestSpec == PvaInit /\ SakInit /\ ChatIdle /\ CtxIdle /\ SplitIdle /\ CtIdle
    /\ CfIdle
    /\ DbIdle
    /\ SrIdle
    /\ TkIdle
    /\ ClIdle
    /\ SsIdle
SpecIngest == InitIngestSpec /\ [][NextIngest]_vars

InitChatFilesSpec ==
    /\ CfInit
    /\ ChatIdle
    /\ CtxIdle
    /\ SplitIdle
    /\ CtIdle
    /\ SakIdle
    /\ PvaIdle
    /\ DbIdle
    /\ SrIdle
    /\ TkIdle
    /\ ClIdle
    /\ SsIdle
SpecChatFiles == InitChatFilesSpec /\ [][NextCf]_vars

InitDbSpec ==
    /\ DbInit
    /\ ChatIdle
    /\ CtxIdle
    /\ SplitIdle
    /\ CtIdle
    /\ SakIdle
    /\ PvaIdle
    /\ CfIdle
    /\ SrIdle
    /\ TkIdle
    /\ ClIdle
    /\ SsIdle
SpecDb == InitDbSpec /\ [][NextDb]_vars

InitSearchSpec ==
    /\ SrInit
    /\ ChatIdle
    /\ CtxIdle
    /\ SplitIdle
    /\ CtIdle
    /\ SakIdle
    /\ PvaIdle
    /\ CfIdle
    /\ DbIdle
    /\ TkIdle
    /\ ClIdle
    /\ SsIdle
SpecSearch == InitSearchSpec /\ [][NextSr]_vars

InitTasksSpec ==
    /\ TkInit
    /\ ChatIdle
    /\ CtxIdle
    /\ SplitIdle
    /\ CtIdle
    /\ SakIdle
    /\ PvaIdle
    /\ CfIdle
    /\ DbIdle
    /\ SrIdle
    /\ ClIdle
    /\ SsIdle
SpecTasks == InitTasksSpec /\ [][NextTk]_vars

InitTaskThreadsSpec ==
    /\ TkInit
    /\ ChatIdle
    /\ CtxIdle
    /\ SplitIdle
    /\ CtIdle
    /\ SakIdle
    /\ PvaIdle
    /\ CfIdle
    /\ DbIdle
    /\ SrIdle
    /\ ClIdle
    /\ SsIdle
SpecTaskThreads == InitTaskThreadsSpec /\ [][NextTkThreads]_vars

InitClientsSpec ==
    /\ ClInit
    /\ ChatIdle
    /\ CtxIdle
    /\ SplitIdle
    /\ CtIdle
    /\ SakIdle
    /\ PvaIdle
    /\ CfIdle
    /\ DbIdle
    /\ SrIdle
    /\ TkIdle
    /\ SsIdle
SpecClients == InitClientsSpec /\ [][NextCl]_vars

InitSessionSpec ==
    /\ SsInit
    /\ ChatIdle
    /\ CtxIdle
    /\ SplitIdle
    /\ CtIdle
    /\ SakIdle
    /\ PvaIdle
    /\ CfIdle
    /\ DbIdle
    /\ SrIdle
    /\ TkIdle
    /\ ClIdle
SpecSession == InitSessionSpec /\ [][NextSs]_vars

-----------------------------------------------------------------------------
(* Claims about the chat functions (checked under SpecChat) *)

\* the list the caller supplied (None and an omitted history hold no entry)
SuppliedItems == chatHist.items

\* the call went through the persona branch (app_suzi.py has no other)
InMentalHealthBranch == chatApp = "app_suzi" \/ chatContext = MentalHealth

\* C1: whenever the hosted model call raises inside the mental-health chat
\* functions, the function returns one of its own hardcoded fallback strings
\* together with the history extended by exactly the user message and that
\* fallback string, for every history the caller can pass, None included.
C1_FallbackForEveryHistory ==
    (chatPc = "called" /\ InMentalHealthBranch /\ chatRes.modelFailed)
        => /\ ~chatRes.raised
           /\ chatRes.text \in FallbackResponses(ChatFunction(chatApp))
           /\ chatRes.history = SuppliedItems
                                    \o <<Entry("user", "content", chatMessage),
                                         Entry("assistant", "content", chatRes.text)>>

\* positions of the supplied history inside the window of the N most recent
\* entries whose role is forwarded
KeptPositions ==
    {i \in 1..Len(SuppliedItems) :
        /\ i > Len(SuppliedItems) - Window(chatApp)
        /\ SuppliedItems[i].role \in {"user", "assistant"}}

\* the j-th smallest kept position
KeptAt(j) == CHOOSE i \in KeptPositions : Cardinality({k \in KeptPositions : k < i}) = j - 1

C10_FallbackForEveryContext ==
    (chatPc = "routed" /\ chatRes.modelFailed)
        => /\ chatResp.status = 200
           /\ chatResp.message \in AllFallbacks

-----------------------------------------------------------------------------
(* Claims about get_context_for_ai (checked under SpecCtx) *)

\* content length of the included chunks ranked before r
IncludedBefore(r) ==
    LET inc == {ctxOut.included[j] : j \in 1..Len(ctxOut.included)}
        RECURSIVE Sum(_)
        Sum(S) == IF S = {} THEN 0
                  ELSE LET x == CHOOSE x \in S : TRUE IN ctxRanked[x].len + Sum(S \ {x})
    IN  Sum({x \in inc : x < r})

\* C2: the context is built from a rank-ordered subsequence of the at most 10
\* search results; no included chunk has a similarity below 0.3; the included
\* chunks' content lengths sum to strictly less than max_context; a chunk that
\* would overflow the budget is skipped while later chunks that still fit are
\* included; when no chunk qualifies or the search returns nothing the result is
\* the empty string.
C2_ContextIsBudgetedSubsequence ==
    ctxPc = "done"
        => LET inc == ctxOut.included
               incSet == {inc[j] : j \in 1..Len(inc)}
           IN  /\ ctxOut.searched <= SearchK
               /\ ctxOut.searched <= Len(ctxRanked)
               /\ \A j \in 1..Len(inc) : inc[j] \in 1..ctxOut.searched
               /\ \A j \in 1..(Len(inc) - 1) : inc[j] < inc[j + 1]
               /\ \A r \in incSet : ~(1000 - ctxRanked[r].distance < SimilarityThreshold)
               /\ IncludedBefore(ctxOut.searched + 1) < ctxMax \/ inc = <<>>
               /\ \A r \in 1..ctxOut.searched :
                      (/\ 1000 - ctxRanked[r].distance > SimilarityThreshold
                       /\ IncludedBefore(r) + ctxRanked[r].len < ctxMax)
                          => r \in incSet
               /\ \A r \in incSet : IncludedBefore(r) + ctxRanked[r].len < ctxMax
               /\ (inc = <<>>) <=> (ctxOut.length = 0)

\* more than 10 chunks were ranked, one chunk above the threshold was skipped
\* because it would overflow the budget and a later one that fits was included
C2_Witness ==
    /\ ctxPc = "done"
    /\ Len(ctxRanked) > SearchK
    /\ ctxOut.searched = SearchK
    /\ \E r, q \in 1..ctxOut.searched :
           /\ r < q
           /\ 1000 - ctxRanked[r].distance > SimilarityThreshold
           /\ r \notin {ctxOut.included[j] : j \in 1..Len(ctxOut.included)}
           /\ q \in {ctxOut.included[j] : j \in 1..Len(ctxOut.included)}

\* C3: the plain-text context returned by get_context_for_ai never exceeds the
\* character budget: the returned string is at most max_context characters long.
C3_ReturnedContextWithinBudget ==
    ctxPc = "done" => ctxOut.length <= ctxMax

-----------------------------------------------------------------------------
(* Claims about _split_text_into_chunks (checked under SpecSplit) *)

\* C7: a text of n words is split into chunks that start at word offsets
\* 0, s, 2s, ... (s = chunk_size - chunk_overlap) below n; every chunk holds at
\* most chunk_size consecutive words in original order; every word occurs in at
\* least one chunk; two consecutive full chunks share exactly chunk_overlap
\* words; an empty text yields no chunk.
C7_OverlappingWordChunks ==
    splitPc = "done"
        => LET words == Split(splitText)
               n == Len(words)
               s == splitSize - splitOverlap
               first(k) == (k - 1) * s + 1
               last(k) == Min((k - 1) * s + splitSize, n)
               count == Cardinality({k \in 0..n : k * s < n})
           IN  /\ Len(splitOut) = count
               /\ \A k \in 1..Len(splitOut) :
                      /\ Split(splitOut[k]) = SubSeq(words, first(k), last(k))
                      /\ Len(Split(splitOut[k])) <= splitSize
                      /\ Len(Split(splitOut[k])) >= 1
               /\ \A i \in 1..n : \E k \in 1..Len(splitOut) : first(k) <= i /\ i <= last(k)
               /\ \A k \in 1..(Len(splitOut) - 1) :
                      (Len(Split(splitOut[k])) = splitSize /\ Len(Split(splitOut[k + 1])) = splitSize)
                          => /\ Cardinality((first(k)..last(k)) \cap (first(k + 1)..last(k + 1))) = splitOverlap
                             /\ SubSeq(Split(splitOut[k]), splitSize - splitOverlap + 1, splitSize)
                                    = SubSeq(Split(splitOut[k + 1]), 1, splitOverlap)
               /\ splitText = <<>> => splitOut = <<>>

\* two full chunks that overlap, followed by a shorter last chunk
C7_Witness ==
    /\ splitPc = "done"
    /\ splitOverlap >= 1
    /\ Len(splitOut) >= 3
    /\ Len(Split(splitOut[1])) = splitSize
    /\ Len(Split(splitOut[2])) = splitSize
    /\ Len(Split(splitOut[Len(splitOut)])) < splitSize
    /\ Split(splitOut[1])[splitSize] # Split(splitOut[1])[1]

-----------------------------------------------------------------------------
(* Claims about _chunk_text (checked under SpecChunkText) *)

\* position i (1-based) of the cleaned text lies inside an occurrence of chunk c
CoveredBy(i, c) ==
    \E a \in 1..Len(ctText) :
        /\ a <= i
        /\ i <= a + Len(c) - 1
        /\ a + Len(c) - 1 <= Len(ctText)
        /\ SubSeq(ctText, a, a + Len(c) - 1) = c

\* what the claim says of the chunks returned
ChunksAsClaimed ==
    /\ \A k \in 1..Len(ctChunks) : ctChunks[k] # <<>> /\ Len(ctChunks[k]) <= ctSize
    /\ \A i \in 1..Len(ctText) :
           ctText[i] \notin Whitespace => \E k \in 1..Len(ctChunks) : CoveredBy(i, ctChunks[k])
    /\ Len(ctText) <= ctSize => ctChunks = <<ctText>>

\* C8: _chunk_text terminates for every input text (its start index strictly
\* increases on every iteration), every chunk it returns is non-empty and at most
\* chunk_size characters long, every non-whitespace character of the
\* whitespace-normalised text lies in at least one chunk, and a text no longer
\* than chunk_size is returned as a single chunk.
C8_ChunkTextAsClaimed ==
    /\ ctPrevStart >= 0 => ctStart > ctPrevStart
    /\ ctStart <= Len(ctText) + ctSize
    /\ ctPc = "done" => ChunksAsClaimed


-----------------------------------------------------------------------------
(* Claims about RAGEngine.retrieve_context and the standalone application *)

\* the positions of the raw results whose similarity reaches the threshold
SimilarPositions(raw) == {i \in 1..Len(raw) : 1000 - raw[i].distance >= RetrieveThreshold}

\* the i-th smallest member of a set of positions
RECURSIVE NthOf(_, _)
NthOf(S, i) ==
    LET m == CHOOSE x \in S : \A y \in S : x <= y
    IN  IF i = 1 THEN m ELSE NthOf(S \ {m}, i - 1)

\* C4: retrieve_context returns exactly those of the at most top_k results of
\* the search whose similarity (1 - distance) is at least the threshold 0.5, in
\* the order the search returned them, each with its own id, content and
\* metadata; no result below the threshold is returned; an error during
\* retrieval yields the empty list.
C4_RetrieveContextFiltersByThreshold ==
    sakLast.called =>
        /\ Len(sakLast.raw) <= TopK
        /\ sakLast.failed => sakLast.context = <<>>
        /\ Len(sakLast.context) = Cardinality(SimilarPositions(sakLast.raw))
        /\ \A i \in 1..Len(sakLast.context) :
               LET r == sakLast.raw[NthOf(SimilarPositions(sakLast.raw), i)]
                   c == sakLast.context[i]
               IN  /\ c.id = r.id
                   /\ c.content = r.document
                   /\ c.metadata = r.metadata
                   /\ c.similarity = 1000 - r.distance
                   /\ c.similarity >= RetrieveThreshold

\* a retrieval over a full page of top_k results that kept a result exactly at
\* the threshold and dropped one below it
C4_Witness ==
    /\ sakLast.called
    /\ ~sakLast.failed
    /\ Len(sakLast.raw) = TopK
    /\ \E i \in 1..Len(sakLast.context) : sakLast.context[i].similarity = RetrieveThreshold
    /\ \E i \in 1..Len(sakLast.raw) : 1000 - sakLast.raw[i].distance < RetrieveThreshold
    /\ Len(sakLast.context) >= 2

\* the sessions that have uploaded a document that was processed
Uploaders == {sakOwner[d] : d \in 1..Len(sakOwner)}

\* C5: whatever uploads and chats the sessions made, the RAG context retrieved
\* for a chat in session S holds only chunks of documents uploaded in session S
\* (the user_id metadata of every returned chunk is S), and a session that has
\* uploaded no document receives no RAG context.
C5_ContextStaysInItsSession ==
    /\ \A i \in 1..Len(sakLast.context) :
           /\ sakLast.context[i].metadata.user_id = sakLast.session
           /\ sakOwner[sakLast.context[i].document_id] = sakLast.session
    /\ sakLast.session \notin Uploaders => sakLast.context = <<>>

\* session S received context although another session's chunks are stored too
C5_Witness ==
    /\ sakLast.kind = "chat"
    /\ sakLast.context # <<>>
    /\ \E c \in sakCollection :
           /\ c.user_id # sakLast.session
           /\ Distance(sakLast.query, c.content) <= 1000 - RetrieveThreshold

-----------------------------------------------------------------------------
(* Claim about the chunk ids of the collections *)

\* C6: after any sequence of ingestions (process_pdf, process_reference_pdfs via
\* /initialize-rag, add_document) the chunk ids of a collection are pairwise
\* distinct, and no ingestion submitted a chunk id the collection already held,
\* also when a file name is ingested a second time.
C6_ChunkIdsNeverResubmitted ==
    /\ \A i, j \in 1..Len(pvaCollection) : pvaCollection[i] = pvaCollection[j] => i = j
    /\ \A c, d \in sakCollection : c.id = d.id => c = d
    /\ ~pvaDup
    /\ ~sakDup

-----------------------------------------------------------------------------
(* Claim about the chat-session files (checked under SpecChatFiles) *)

\* C11: load_chat_session(id) after save_chat_session(id, m) returns exactly the
\* last 20 messages of m in order (all of m when it has at most 20); a stored
\* session never holds more than 20 messages; a later save for the same id
\* replaces the earlier one; loading an id never saved, or deleted, returns [].
C11_SessionFileRoundTrip ==
    /\ \A id \in ChatSessionIds :
           /\ Len(JsonLoadMessages(cfFiles[id].messages)) <= SessionCap
           /\ cfFiles[id].exists = cfSaved[id].saved
    /\ (cfLast.op = "load" /\ cfLast.ok) =>
           LET m == cfSaved[cfLast.session_id]
           IN  /\ m.saved => cfLast.result = LastN(m.messages, SessionCap)
               /\ m.saved /\ Len(m.messages) <= SessionCap => cfLast.result = m.messages
               /\ ~m.saved => cfLast.result = <<>>

\* a load that returned 20 messages of a 22-message list saved over an earlier one
C11_Witness ==
    /\ cfLast.op = "load"
    /\ cfLast.ok
    /\ Len(cfSaved[cfLast.session_id].messages) = SessionCap + 2
    /\ Len(cfLast.result) = SessionCap
    /\ cfLast.result[1] = PadMessage(3)

-----------------------------------------------------------------------------
(* Claim about DatabaseManager (checked under SpecDb) *)

\* the items of a session's rows in one table
ItemsOf(rows, session_id) ==
    LET own == RowsOf(rows, session_id) IN [i \in 1..Len(own) |-> own[i].item]

\* C12: after save_session(s) succeeds, load_session(s.id) returns chat_history,
\* documents, emotions and assessments equal to those of s; the count columns
\* equal the lengths of the four lists; saving the session again replaces its
\* rows in the four tables instead of duplicating them; load_session of an id
\* never saved, or deleted by delete_session, returns None.
C12_SessionRoundTrip ==
    /\ (dbLast.op = "load" /\ dbLast.ok) => dbLast.result = dbSaved[dbLast.id]
    /\ \A id \in DbSessionIds :
           LET s == dbSaved[id]
               row == dbTables.sessions[id]
           IN  /\ row.present = s.found
               /\ s.found =>
                      /\ row.chat_history_count = Len(s.chat_history)
                      /\ row.documents_count = Len(s.documents)
                      /\ row.emotions_count = Len(s.emotions)
                      /\ row.assessments_count = Len(s.assessments)
                      /\ ItemsOf(dbTables.documents, id) = s.documents
                      /\ ItemsOf(dbTables.emotions, id) = s.emotions
                      /\ ItemsOf(dbTables.assessments, id) = s.assessments
                      /\ ItemsOf(dbTables.chat_history, id) = s.chat_history
               /\ ~s.found =>
                      /\ RowsOf(dbTables.documents, id) = <<>>
                      /\ RowsOf(dbTables.emotions, id) = <<>>
                      /\ RowsOf(dbTables.assessments, id) = <<>>
                      /\ RowsOf(dbTables.chat_history, id) = <<>>

\* a load of a session that was saved twice, the other session holding rows too
C12_Witness ==
    /\ dbLast.op = "load"
    /\ dbLast.ok
    /\ dbLast.result.found
    /\ Len(dbLast.result.emotions) = 2
    /\ dbLast.result.documents # <<>>
    /\ Len(dbTables.emotions) > 2

-----------------------------------------------------------------------------
(* Claim about search_context (checked under SpecSearch) *)

\* C13: for every query, reference content and set of user reports, the string
\* search_context returns is at most max_chars characters long; a query with no
\* word character returns the empty string.
C13_SearchContextWithinMaxChars ==
    srPc = "done" =>
        /\ Len(srOut) <= srMaxChars
        /\ FindWords(srQuery, <<>>, <<>>) = <<>> => srOut = <<>>

-----------------------------------------------------------------------------
(* Claims about the task store (checked under SpecTasks and SpecTaskThreads) *)

\* C14: after any sequence of add_task, update_task_status and delete_task the
\* ids of the stored tasks are pairwise distinct, so an update or delete
\* addressed to an id affects exactly one task.
C14_TaskIdsDistinct ==
    \A i, j \in 1..Len(tkStore) : tkStore[i].id = tkStore[j].id => i = j

\* C15: when requests interleave at their load_tasks / save_tasks steps, every
\* task whose add completed and which no completed delete removed is in the
\* store.
C15_NoTaskLost ==
    \A title \in tkAdded \ tkRemoved : \E i \in 1..Len(tkStore) : tkStore[i].title = title

\* C19: for every stored task, completed_at is set exactly when the status is
\* 'completed'.
C19_CompletedAtIffCompleted ==
    \A i \in 1..Len(tkStore) :
        (tkStore[i].completed_at # "null") <=> (tkStore[i].status = "completed")

C21_DeleteAnswersByPresence ==
    tkLast.op = "delete" =>
        IF Holding(tkLast.before, tkLast.task_id) = {}
            THEN tkLast.code = 404 /\ tkStore = tkLast.before
            ELSE /\ tkLast.code = 200
                 /\ Holding(tkStore, tkLast.task_id) = {}
                 /\ tkStore = SelectSeq(tkLast.before, LAMBDA t : t.id # tkLast.task_id)

-----------------------------------------------------------------------------
(* Claims about the client profiles (checked under SpecClients) *)

\* C16: POST /client-profile with an email some client holds answers 409 and
\* adds no client, and every valid request is served as if no request had
\* been rejected before it: a create with a fresh email answers 201, a get of
\* an existing client 200, a mood entry 201.
C16_RejectedCreateLeavesServiceUsable ==
    /\ (clLast.op = "create" /\ clLast.held) =>
           clLast.code = 409 /\ clClients = clLast.before
    /\ (clLast.op = "create" /\ ~clLast.held) => clLast.code = 201
    /\ (clLast.op = "get" /\ clLast.known) => clLast.code = 200
    /\ clLast.op = "mood" => clLast.code = 201

\* the mood entries recorded with a client's id, oldest first
MoodsOf(client_id) == SelectSeq(clMoods, LAMBDA m : m.client_id = client_id)

\* C22: each client's session_count is the number of mood entries recorded
\* with its id, and its current_mood_score is the mood_score of the latest
\* of them (NULL when there is none).
C22_ClientFollowsItsMoodEntries ==
    \A client_id \in 1..Len(clClients) :
        /\ clClients[client_id].session_count = Len(MoodsOf(client_id))
        /\ clClients[client_id].current_mood_score =
               (IF MoodsOf(client_id) = <<>> THEN <<>>
                ELSE <<MoodsOf(client_id)[Len(MoodsOf(client_id))].mood_score>>)

-----------------------------------------------------------------------------
(* Claims about a session of the standalone app (checked under SpecSession) *)

\* C17: a persisted session is continued, not replaced: every entry of
\* chat_history, documents, emotions and assessments that a save has
\* persisted is still in the database after every later request and its save.
C17_PersistedEntriesKept == ssPersisted \subseteq PersistedEntries(ssDb)

\* C18: chat_history is a sequence of (user, assistant) pairs: the entries at
\* odd positions are user entries, each entry at an even position is the
\* assistant reply to the user message just before it.
C18_ChatHistoryAlternates ==
    \A i \in 1..Len(ssSession.chat_history) :
        \E n \in 1..MaxSessionRequests :
            IF i % 2 = 1 THEN ssSession.chat_history[i] = UserEntry(n)
            ELSE /\ ssSession.chat_history[i] = AssistantEntry(n)
                 /\ ssSession.chat_history[i - 1] = UserEntry(n)

====
